---------------------------- MODULE Spec2Model ----------------------------
(***************************************************************************)
(* The thin-pool device set of daemon/graphdriver/devmapper/deviceset.go:  *)
(* the device-ID bitmap allocator, the per-device metadata files, the      *)
(* transaction record, the block-mapping driver as the code uses it, and   *)
(* the public operations as threads that take the per-device lock and the  *)
(* pool-wide lock.                                                         *)
(***************************************************************************)
EXTENDS Integers, Sequences, FiniteSets, TLC

(***************************************************************************)
(* Bounds of the model.                                                    *)
(***************************************************************************)
\* width of a device ID in bits (24 in the source, deviceset.go:35)
IDBits == 3
\* the allocator specification frees and marks the IDs below this one and
\* the two topmost IDs; all other IDs stay used
AllocWindow == 3

\* maxDeviceID = 0xffffff in the source: all ones over the ID width
maxDeviceID == 2^IDBits - 1
deviceIDMapSz == (maxDeviceID + 1) \div 8

DeviceIDs == 0..maxDeviceID

(***************************************************************************)
(* The bitmap: a byte array, one bit per device ID.                        *)
(***************************************************************************)
\* x & y on naturals, bit by bit
RECURSIVE BitAnd(_, _)
BitAnd(x, y) ==
    IF x = 0 \/ y = 0 THEN 0
    ELSE (x % 2) * (y % 2) + 2 * BitAnd(x \div 2, y \div 2)

\* bit i of byte b
Bit(b, i) == (b \div 2^i) % 2

\* devices.deviceIDMap[deviceID/8] |= 1 << (deviceID % 8)
markDeviceIDUsed(map, deviceID) ==
    LET i == deviceID % 8
        b == map[deviceID \div 8]
    IN  [map EXCEPT ![deviceID \div 8] = IF Bit(b, i) = 1 THEN b ELSE b + 2^i]

markDeviceIDFreeNoop(map, deviceID) == map

\* devices.deviceIDMap[deviceID/8] &= ^(1 << (deviceID % 8))
markDeviceIDFree(map, deviceID) ==
    LET i == deviceID % 8
        b == map[deviceID \div 8]
    IN  [map EXCEPT ![deviceID \div 8] = IF Bit(b, i) = 1 THEN b - 2^i ELSE b]

isDeviceIDFree(map, deviceID) ==
    Bit(map[deviceID \div 8], deviceID % 8) = 0

\* IDs are 24bit, so wrap around
incNextDeviceID(next) == BitAnd(next + 1, maxDeviceID)

\* the scan loop of getNextFreeDeviceID, from iteration i on
RECURSIVE scanFreeDeviceID(_, _, _)
scanFreeDeviceID(map, next, i) ==
    IF i > maxDeviceID
    THEN [ok |-> FALSE, id |-> 0, map |-> map, next |-> next]
    ELSE IF isDeviceIDFree(map, next)
         THEN [ok |-> TRUE, id |-> next,
               map |-> markDeviceIDUsed(map, next), next |-> next]
         ELSE scanFreeDeviceID(map, incNextDeviceID(next), i + 1)

getNextFreeDeviceIDNoMark(map, next) ==
    LET r == scanFreeDeviceID(map, incNextDeviceID(next), 0)
    IN  [r EXCEPT !.map = map]

getNextFreeDeviceIDShort(map, next) ==
    scanFreeDeviceID(map, incNextDeviceID(next), 1)

\* an allocator that puts the cursor back when it finds no free ID
getNextFreeDeviceIDRewind(map, next) ==
    LET r == scanFreeDeviceID(map, incNextDeviceID(next), 0)
    IN  IF r.ok THEN r ELSE [r EXCEPT !.next = next]

\* an allocator whose scan starts at the cursor itself
getNextFreeDeviceIDFromCursor(map, next) == scanFreeDeviceID(map, next, 0)

\* result: ok, the ID, the bitmap and the NextDeviceID cursor afterwards
getNextFreeDeviceID(map, next) ==
    scanFreeDeviceID(map, incNextDeviceID(next), 0)

\* the bitmap with exactly the IDs of S marked used
RECURSIVE mapOf(_)
mapOf(S) ==
    IF S = {} THEN [b \in 0..(deviceIDMapSz - 1) |-> 0]
    ELSE LET x == CHOOSE y \in S : TRUE
         IN  markDeviceIDUsed(mapOf(S \ {x}), x)

usedIDs(map) == {d \in DeviceIDs : ~isDeviceIDFree(map, d)}


(***************************************************************************)
(* State.                                                                  *)
(***************************************************************************)
VARIABLES
    \* DeviceSet, in memory
    deviceIDMap,      \* the bitmap
    NextDeviceID,     \* the allocator cursor
    TransactionID,    \* the pool transaction ID as the process knows it
    transaction,      \* OpenTransactionID, DeviceIDHash, DeviceID
    Devices,          \* metaData.Devices: hash -> devInfo object (0: none)
    heap,             \* the devInfo objects, with their lock
    poolLock,         \* holder of the DeviceSet mutex (0: free)
    deferredRemove,   \* option: use deferred removal
    \* the metadata directory
    metaFiles,        \* one file per hash
    transFile,        \* transaction-metadata
    savedNextDeviceID,\* next_device_id of deviceset-metadata
    backing,          \* the data file, its loop device and the pool on them
    \* the block-mapping driver and the kernel
    poolDevs,         \* thin device IDs that exist in the pool
    poolTxn,          \* the transaction ID held by the pool
    active,           \* names (hashes) of the activated devices
    deferred,         \* activated devices with a deferred removal scheduled
    kmount,           \* hash -> number of live mounts of its device
    \* control
    boot,             \* position of the startup sequence ("up": running)
    thr,              \* thread -> position and locals of its current call
    faulty,           \* how many driver, file or mount calls may still fail on their own
    \* history
    last,             \* the last allocator call and its result
    hist              \* what the last kill and the last startup met

memVars  == <<deviceIDMap, NextDeviceID, TransactionID, transaction, Devices,
              heap, poolLock, deferredRemove>>
diskVars == <<metaFiles, transFile, savedNextDeviceID, backing>>
drvVars  == <<poolDevs, poolTxn, active, deferred, kmount>>
vars     == <<deviceIDMap, NextDeviceID, TransactionID, transaction, Devices,
              heap, poolLock, deferredRemove, metaFiles, transFile,
              savedNextDeviceID, backing, poolDevs, poolTxn, active, deferred,
              kmount, boot, thr, faulty, last, hist>>

(***************************************************************************)
(* The allocator on its own: any sequence of getNextFreeDeviceID,          *)
(* markDeviceIDUsed and markDeviceIDFree.                                  *)
(***************************************************************************)
\* the IDs the allocator specification marks and frees
WindowIDs == {d \in DeviceIDs : d < AllocWindow \/ d > maxDeviceID - 2}

\* the last call of the allocator specification: the free IDs and the
\* cursor before it, and the ID last handed to markDeviceIDFree
NoCall == [call |-> "none", id |-> 0, ok |-> TRUE, freeBefore |-> {}, from |-> 0,
           freed |-> -1]

notAllocVars == <<TransactionID, transaction, Devices, heap, poolLock,
                  deferredRemove, metaFiles, transFile, savedNextDeviceID, backing,
                  poolDevs, poolTxn, active, deferred, kmount, boot, thr,
                  faulty, hist>>

AllocCall ==
    LET r == getNextFreeDeviceID(deviceIDMap, NextDeviceID)
    IN  /\ deviceIDMap' = r.map
        /\ NextDeviceID' = r.next
        /\ last' = [call |-> "alloc", id |-> r.id, ok |-> r.ok,
                    freeBefore |-> DeviceIDs \ usedIDs(deviceIDMap),
                    from |-> NextDeviceID, freed |-> last.freed]
        /\ UNCHANGED notAllocVars

MarkUsedCall ==
    \E d \in WindowIDs :
        /\ deviceIDMap' = markDeviceIDUsed(deviceIDMap, d)
        /\ last' = [call |-> "used", id |-> d, ok |-> TRUE,
                    freeBefore |-> DeviceIDs \ usedIDs(deviceIDMap),
                    from |-> NextDeviceID, freed |-> last.freed]
        /\ UNCHANGED NextDeviceID
        /\ UNCHANGED notAllocVars

MarkFreeCall ==
    \E d \in WindowIDs :
        /\ deviceIDMap' = markDeviceIDFree(deviceIDMap, d)
        /\ last' = [call |-> "free", id |-> d, ok |-> TRUE,
                    freeBefore |-> DeviceIDs \ usedIDs(deviceIDMap),
                    from |-> NextDeviceID, freed |-> d]
        /\ UNCHANGED NextDeviceID
        /\ UNCHANGED notAllocVars

(***************************************************************************)
(* The device set with its callers.                                        *)
(***************************************************************************)
\* number of caller threads of the concurrent specifications
NThreads == 2
\* the pool transaction ID up to which calls are started
MaxTxn == 4
\* the mount count up to which MountDevice calls are started
MaxMount == 2
\* the number of stacked kernel mounts of one device the kernel accepts
MaxKMount == 2
\* attempts of removeDevice (200 in the source) and of
\* cancelDeferredRemoval (100 in the source) on a busy device
MaxFaults == 1
MaxCalls == 3
MaxMountCalls == 5
RemoveAttempts == 2
CancelAttempts == 2

\* "" is the base device; operations are called on the layers "a" and "b"
Hashes   == {"", "a", "b"}
OpHashes == {"a", "b"}
Paths    == {"p", "q"}
Threads  == 1..NThreads
\* devInfo objects: one per hash in the index and two per thread for
\* the objects a thread still holds after they left the index
ObjIds   == 1..(Cardinality(Hashes) + 2 * NThreads)

\* devices.baseFsSize, and the size the base device was created with
baseFsSize == 2
BaseSize   == 1

\* IDs of the devices of layers that no modelled operation names: their
\* metadata files are in the directory, their thin devices in the pool
OtherDeviceIDs == {d \in DeviceIDs : d >= 4}

NoFile  == [exists |-> FALSE, DeviceID |-> 0, Size |-> 0, TransactionID |-> 0,
            Initialized |-> FALSE, valid |-> FALSE]
NoTrans == [exists |-> FALSE, OpenTransactionID |-> 0, DeviceIDHash |-> "",
            DeviceID |-> 0]
NoObj   == [live |-> FALSE, Hash |-> "", DeviceID |-> 0, Size |-> 0,
            TransactionID |-> 0, Initialized |-> FALSE, mountCount |-> 0,
            mountPath |-> "", lock |-> 0]
Idle    == [pc |-> "idle", op |-> "none", hash |-> "", base |-> "", path |-> "",
            info |-> 0, deviceID |-> 0, err |-> "", i |-> 0, stage |-> 0,
            size |-> 0,
            todo |-> {},
            nmount |-> 0, numount |-> 0, ndeact |-> 0, nact |-> 0,
            npool |-> 0, nsave |-> 0]
NoHist  == [kill |-> [t \in Threads |-> Idle],
            pend |-> NoTrans, agrees |-> TRUE, rolled |-> FALSE, rmOk |-> TRUE,
            quiet |-> FALSE, snap |-> <<>>, calls |-> 0]

\* the record of a transaction as the code keeps it in memory
ZeroTransaction == [OpenTransactionID |-> 0, DeviceIDHash |-> "", DeviceID |-> 0]

\* an encoding that leaves the Initialized field out
fileOfNoInit(o) == [exists |-> TRUE, DeviceID |-> o.DeviceID, Size |-> o.Size,
                    TransactionID |-> o.TransactionID, Initialized |-> FALSE,
                    valid |-> TRUE]

\* json.Marshal(info) written to the file of the hash; valid tells that
\* json.Unmarshal accepts the content of a file
fileOf(o) == [exists |-> TRUE, DeviceID |-> o.DeviceID, Size |-> o.Size,
              TransactionID |-> o.TransactionID, Initialized |-> o.Initialized,
              valid |-> TRUE]

\* loadMetadata: the devInfo read from the file of hash
loadMetadata(files, hash) ==
    [live |-> TRUE, Hash |-> hash, DeviceID |-> files[hash].DeviceID,
     Size |-> files[hash].Size, TransactionID |-> files[hash].TransactionID,
     Initialized |-> files[hash].Initialized, mountCount |-> 0,
     mountPath |-> "", lock |-> 0]

\* the devInfo objects something still points to
reachable(devs, threads) ==
    {devs[h] : h \in Hashes} \cup {threads[t].info : t \in Threads}
        \cup UNION {threads[t].todo : t \in Threads}

\* the heap without the objects nothing points to any more
collect(hp, devs, threads) ==
    [o \in ObjIds |-> IF o \in reachable(devs, threads) THEN hp[o] ELSE NoObj]

\* the slot of a new devInfo object
newObj(hp) == CHOOSE o \in ObjIds : ~hp[o].live /\ \A p \in ObjIds : ~hp[p].live => o <= p

\* lookupDevice: the object of hash in the index, loaded from its
\* metadata file when the index does not hold it; 0 when there is neither.
\* Result: the object and the index and heap afterwards.
lookupDevice(devs, hp, files, hash) ==
    IF devs[hash] # 0
    THEN [info |-> devs[hash], devs |-> devs, heap |-> hp]
    ELSE IF files[hash].exists /\ files[hash].valid
         THEN LET o == newObj(hp)
              IN  [info |-> o, devs |-> [devs EXCEPT ![hash] = o],
                   heap |-> [hp EXCEPT ![o] = loadMetadata(files, hash)]]
         ELSE [info |-> 0, devs |-> devs, heap |-> hp]

(***************************************************************************)
(* The state after a start of the daemon on a pool that holds the          *)
(* initialized base device (ID 1), the layer "a" (ID 2, the last           *)
(* transaction) and the layers of OtherDeviceIDs; deviceset-metadata was   *)
(* last saved when the base device was set up.                             *)
\* the size of the data file when the pool was set up, and the largest
\* size a caller of ResizePool asks for
DataSize == 2
MaxDataSize == 3

(***************************************************************************)
InitFiles ==
    [h \in Hashes |->
        CASE h = ""  -> [exists |-> TRUE, DeviceID |-> 1, Size |-> BaseSize,
                         TransactionID |-> 1, Initialized |-> TRUE, valid |-> TRUE]
          [] h = "a" -> [exists |-> TRUE, DeviceID |-> 2, Size |-> BaseSize,
                         TransactionID |-> 2, Initialized |-> FALSE, valid |-> TRUE]
          [] OTHER   -> NoFile]

InitMem ==
    /\ deviceIDMap = mapOf({1, 2} \cup OtherDeviceIDs)
    /\ NextDeviceID = 1
    /\ TransactionID = 2
    /\ transaction = [OpenTransactionID |-> 2, DeviceIDHash |-> "a", DeviceID |-> 2]
    /\ Devices = [h \in Hashes |-> IF h = "" THEN 1 ELSE 0]
    /\ heap = [o \in ObjIds |-> IF o = 1 THEN loadMetadata(InitFiles, "") ELSE NoObj]
    /\ poolLock = 0

\* the pool as initDevmapper leaves it: set up on the loopback data file,
\* or on the thin-pool device of the dm.thinpooldev option
InitBacking(thinPoolDevice) ==
    [fileSize |-> DataSize, loopSize |-> DataSize, poolSize |-> DataSize,
     suspended |-> FALSE, external |-> thinPoolDevice, poolUp |-> TRUE]

InitDisk ==
    /\ metaFiles = InitFiles
    /\ transFile = [exists |-> TRUE, OpenTransactionID |-> 2, DeviceIDHash |-> "a",
                    DeviceID |-> 2]
    /\ savedNextDeviceID = 1
    /\ backing = InitBacking(FALSE)

InitDriver ==
    /\ poolDevs = {1, 2} \cup OtherDeviceIDs
    /\ poolTxn = 2
    /\ active = {}
    /\ deferred = {}
    /\ kmount = [h \in Hashes |-> 0]

InitWith(n) ==
    /\ InitMem
    /\ InitDisk
    /\ InitDriver
    /\ deferredRemove \in BOOLEAN
    /\ boot = "up"
    /\ thr = [t \in Threads |-> Idle]
    /\ faulty = MaxFaults
    /\ last = NoCall
    /\ hist = [NoHist EXCEPT !.calls = n]

Init == InitWith(MaxCalls)

\* the allocator specification starts from any bitmap over the window and
\* any cursor
InitAlloc ==
    /\ \E S \in SUBSET WindowIDs : deviceIDMap = mapOf((DeviceIDs \ WindowIDs) \cup S)
    /\ NextDeviceID \in DeviceIDs
    /\ TransactionID = 2
    /\ transaction = [OpenTransactionID |-> 2, DeviceIDHash |-> "a", DeviceID |-> 2]
    /\ Devices = [h \in Hashes |-> IF h = "" THEN 1 ELSE 0]
    /\ heap = [o \in ObjIds |-> IF o = 1 THEN loadMetadata(InitFiles, "") ELSE NoObj]
    /\ poolLock = 0
    /\ InitDisk
    /\ InitDriver
    /\ deferredRemove = FALSE
    /\ boot = "up"
    /\ thr = [t \in Threads |-> Idle]
    /\ faulty = 0
    /\ last = NoCall
    /\ hist = NoHist

NextAlloc == AllocCall \/ MarkUsedCall \/ MarkFreeCall

SpecAlloc == InitAlloc /\ [][NextAlloc]_vars

(***************************************************************************)
(* Properties of the allocator (SpecAlloc).                                *)
(***************************************************************************)
freeIDs(map) == DeviceIDs \ usedIDs(map)

\* how many steps of the scan lie between the cursor `from` and the ID d
scanDistance(from, d) == (d + maxDeviceID + 1 - incNextDeviceID(from)) % (maxDeviceID + 1)

\* C4: getNextFreeDeviceID never returns an ID whose bit is set: the ID it
\* returns was free before the call, is marked used after it, and no other
\* bit moved; an ID handed to markDeviceIDFree is free afterwards, and a
\* free ID can be returned later, since the call returns the first free ID
\* of the scan from the cursor and fails only when no ID is free.
C4_AllocatorSafety ==
    /\ (last.call = "alloc" /\ last.ok) =>
          /\ last.id \in last.freeBefore
          /\ ~isDeviceIDFree(deviceIDMap, last.id)
          /\ freeIDs(deviceIDMap) = last.freeBefore \ {last.id}
          /\ \A d \in last.freeBefore :
                scanDistance(last.from, last.id) <= scanDistance(last.from, d)
          /\ NextDeviceID = last.id
    /\ (last.call = "alloc" /\ ~last.ok) => last.freeBefore = {}
    /\ last.call = "free" =>
          /\ isDeviceIDFree(deviceIDMap, last.id)
          /\ freeIDs(deviceIDMap) = last.freeBefore \cup {last.id}
    /\ last.call = "used" =>
          /\ ~isDeviceIDFree(deviceIDMap, last.id)
          /\ freeIDs(deviceIDMap) = last.freeBefore \ {last.id}

\* an ID that was freed comes back from the allocator after a wraparound of
\* the cursor, other IDs being free as well
C4_Witness ==
    /\ last.call = "alloc"
    /\ last.ok
    /\ last.id = last.freed
    /\ last.id < last.from
    /\ Cardinality(last.freeBefore) > 1

\* C5: with every ID of 0..maxDeviceID marked used getNextFreeDeviceID
\* fails whatever the cursor is, and leaves the bitmap full; freeing one ID
\* x of the full bitmap leaves exactly x free; with exactly x free the call
\* succeeds, returns x and leaves the bitmap full, so that the call after
\* it fails again.
C5_AllocatorExhaustion ==
    /\ (last.call = "alloc" /\ last.freeBefore = {}) =>
          /\ ~last.ok
          /\ freeIDs(deviceIDMap) = {}
    /\ (last.call = "free" /\ last.freeBefore = {}) =>
          freeIDs(deviceIDMap) = {last.id}
    /\ \A x \in DeviceIDs :
          (last.call = "alloc" /\ last.freeBefore = {x}) =>
              /\ last.ok
              /\ last.id = x
              /\ freeIDs(deviceIDMap) = {}

\* the one free ID is the one freed before, and it is the cursor itself,
\* which the scan reaches last
C5_Witness ==
    /\ last.call = "alloc"
    /\ last.ok
    /\ last.freeBefore = {last.id}
    /\ last.id = last.freed
    /\ last.id = last.from

(***************************************************************************)
(* Steps common to the calls.                                              *)
(***************************************************************************)
me(t)   == thr[t]
at(t, pc) == boot = "up" /\ thr[t].pc = pc
setThr(t, r) == thr' = [thr EXCEPT ![t] = r]
goto(t, pc) == thr' = [thr EXCEPT ![t].pc = pc]
\* the deferred Unlock calls run: the pool lock first, the device lock next
fail(t, e) == thr' = [thr EXCEPT ![t].pc = "unlockpool", ![t].err = e]
done(t)    == thr' = [thr EXCEPT ![t].pc = "unlockpool"]

\* devicesLock, the lock of the index: lookupDevice, registerDevice,
\* unregisterDevice and Shutdown take and release it inside one step;
\* HasDevice and List hold it at the position "p_indevices"
devicesLockFree == \A u \in Threads : thr[u].pc # "p_indevices"

\* a body that starts with the lock of the device, the pool lock held
bodyOfLockFirst(op) == "lockdev"

\* the first step of the body of an operation, the two locks held
bodyOf(op) ==
    CASE op = "AddDevice"          -> "a_exists"
      [] op = "DeleteDevice"       -> "act_cancel"
      [] op = "MountDevice"        -> "m_check"
      [] op = "UnmountDevice"      -> "u_check"
      [] op = "GetDeviceStatus"    -> "act_cancel"
      [] op = "HasActivatedDevice" -> "h_info"
      [] OTHER                     -> "ret"

\* info, err := devices.lookupDevice(hash) at the head of an operation on
\* the device `hash`; a call is started only while the model's counters
\* are inside their bounds
Call(t, op, hash, target, path) ==
    /\ at(t, "idle")
    /\ devicesLockFree
    /\ op \in {"AddDevice", "DeleteDevice"} => TransactionID < MaxTxn
    /\ op = "MountDevice" => \A o \in ObjIds : heap[o].mountCount < MaxMount
    /\ LET r == lookupDevice(Devices, heap, metaFiles, target)
           c == [Idle EXCEPT !.op = op, !.hash = hash, !.base = target,
                             !.path = path, !.info = r.info]
       IN  /\ Devices' = r.devs
           /\ heap' = r.heap
           /\ IF r.info = 0
              THEN setThr(t, [c EXCEPT !.pc = "ret", !.err = "unknown device"])
              ELSE setThr(t, [c EXCEPT !.pc = "lockdev"])
    /\ hist.calls > 0
    /\ hist' = [NoHist EXCEPT !.calls = hist.calls - 1]
    /\ UNCHANGED <<deviceIDMap, NextDeviceID, TransactionID, transaction, poolLock,
                   deferredRemove, boot, faulty, last>>
    /\ UNCHANGED <<diskVars, drvVars>>

\* info.lock.Lock()
LockDevice(t) ==
    /\ at(t, "lockdev")
    /\ heap[me(t).info].lock = 0
    /\ heap' = [heap EXCEPT ![me(t).info].lock = t]
    /\ goto(t, "lockpool")
    /\ UNCHANGED <<deviceIDMap, NextDeviceID, TransactionID, transaction, Devices,
                   poolLock, deferredRemove, boot, faulty, last, hist>>
    /\ UNCHANGED <<diskVars, drvVars>>

\* a pool lock that does not make its caller wait
LockPoolBarging(t) ==
    /\ at(t, "lockpool")
    /\ poolLock' = t
    /\ goto(t, IF me(t).op = "Shutdown"
               THEN (IF me(t).stage = 2 THEN "sd_pool" ELSE "de_info")
               ELSE bodyOf(me(t).op))
    /\ UNCHANGED <<deviceIDMap, NextDeviceID, TransactionID, transaction, Devices,
                   heap, deferredRemove, boot, faulty, last, hist>>
    /\ UNCHANGED <<diskVars, drvVars>>

\* devices.Lock() after the device lock
LockPool(t) ==
    /\ at(t, "lockpool")
    /\ poolLock = 0
    /\ poolLock' = t
    /\ goto(t, IF me(t).op = "Shutdown"
               THEN (IF me(t).stage = 2 THEN "sd_pool" ELSE "de_info")
               ELSE bodyOf(me(t).op))
    /\ UNCHANGED <<deviceIDMap, NextDeviceID, TransactionID, transaction, Devices,
                   heap, deferredRemove, boot, faulty, last, hist>>
    /\ UNCHANGED <<diskVars, drvVars>>

\* the deferred devices.Unlock()
UnlockPool(t) ==
    /\ at(t, "unlockpool")
    /\ poolLock' = 0
    /\ goto(t, "unlockdev")
    /\ UNCHANGED <<deviceIDMap, NextDeviceID, TransactionID, transaction, Devices,
                   heap, deferredRemove, boot, faulty, last, hist>>
    /\ UNCHANGED <<diskVars, drvVars>>

\* the deferred info.lock.Unlock(): the call has returned
UnlockDevice(t) ==
    /\ at(t, "unlockdev")
    /\ heap' = [heap EXCEPT ![me(t).info].lock = 0]
    /\ goto(t, "ret")
    /\ UNCHANGED <<deviceIDMap, NextDeviceID, TransactionID, transaction, Devices,
                   poolLock, deferredRemove, boot, faulty, last, hist>>
    /\ UNCHANGED <<diskVars, drvVars>>

\* the caller drops the result and its locals
Return(t) ==
    /\ at(t, "ret")
    /\ thr' = [thr EXCEPT ![t] = Idle]
    /\ heap' = collect(heap, Devices, [thr EXCEPT ![t] = Idle])
    /\ UNCHANGED <<deviceIDMap, NextDeviceID, TransactionID, transaction, Devices,
                   poolLock, deferredRemove, boot, faulty, last, hist>>
    /\ UNCHANGED <<diskVars, drvVars>>

(***************************************************************************)
(* AddDevice(hash, baseHash): createRegisterSnapDevice under the lock of   *)
(* the base device and the pool lock.                                      *)
(***************************************************************************)
\* results of a call that works, or fails on its own
Results == IF faulty > 0 THEN {"ok", "fault"} ELSE {"ok"}

\* a failure that comes from outside uses up one of the faults of the run
spend(res) == faulty' = IF res \in {"fault", "probe"} THEN faulty - 1 ELSE faulty

\* if info, _ := devices.lookupDevice(hash); info != nil { return error }
AddExists(t) ==
    /\ at(t, "a_exists")
    /\ LET r == lookupDevice(Devices, heap, metaFiles, me(t).hash)
       IN  /\ Devices' = r.devs
           /\ heap' = r.heap
           /\ IF r.info # 0 THEN fail(t, "exists") ELSE goto(t, "a_alloc")
    /\ UNCHANGED <<deviceIDMap, NextDeviceID, TransactionID, transaction, poolLock,
                   deferredRemove, boot, faulty, last, hist>>
    /\ UNCHANGED <<diskVars, drvVars>>

\* deviceID, err := devices.getNextFreeDeviceID(); todo keeps the IDs the
\* call has tried
AddAlloc(t) ==
    /\ at(t, "a_alloc")
    /\ LET r == getNextFreeDeviceID(deviceIDMap, NextDeviceID)
       IN  /\ deviceIDMap' = r.map
           /\ NextDeviceID' = r.next
           /\ IF r.ok
              THEN setThr(t, [me(t) EXCEPT !.pc = "a_open", !.deviceID = r.id,
                                         !.todo = {r.id}])
              ELSE fail(t, "no free id")
    /\ UNCHANGED <<TransactionID, transaction, Devices, heap, poolLock,
                   deferredRemove, boot, faulty, last, hist>>
    /\ UNCHANGED <<diskVars, drvVars>>

\* an openTransaction whose caller drops the error of the write
AddOpenBlind(t) ==
    /\ at(t, "a_open")
    /\ LET tr == [OpenTransactionID |-> TransactionID + 1,
                  DeviceIDHash |-> me(t).hash, DeviceID |-> me(t).deviceID]
       IN  /\ transaction' = tr
           /\ \E res \in Results :
                /\ spend(res)
                /\ transFile' = IF res = "ok"
                                THEN [exists |-> TRUE,
                                      OpenTransactionID |-> tr.OpenTransactionID,
                                      DeviceIDHash |-> tr.DeviceIDHash,
                                      DeviceID |-> tr.DeviceID]
                                ELSE transFile
                /\ deviceIDMap' = deviceIDMap
                /\ goto(t, "a_create")
    /\ UNCHANGED <<NextDeviceID, TransactionID, Devices, heap, poolLock,
                   deferredRemove, boot, last, hist>>
    /\ UNCHANGED <<metaFiles, savedNextDeviceID, backing, drvVars>>

\* openTransaction(hash, deviceID): allocateTransactionID, then
\* saveTransactionMetaData; on an error the ID is freed
AddOpen(t) ==
    /\ at(t, "a_open")
    /\ LET tr == [OpenTransactionID |-> TransactionID + 1,
                  DeviceIDHash |-> me(t).hash, DeviceID |-> me(t).deviceID]
       IN  /\ transaction' = tr
           /\ \E res \in Results :
                /\ spend(res)
                /\ IF res = "ok"
                   THEN /\ transFile' = [exists |-> TRUE,
                                         OpenTransactionID |-> tr.OpenTransactionID,
                                         DeviceIDHash |-> tr.DeviceIDHash,
                                         DeviceID |-> tr.DeviceID]
                        /\ deviceIDMap' = deviceIDMap
                        /\ goto(t, "a_create")
                   ELSE /\ transFile' = transFile
                        /\ deviceIDMap' = markDeviceIDFree(deviceIDMap, me(t).deviceID)
                        /\ fail(t, "open transaction")
    /\ UNCHANGED <<NextDeviceID, TransactionID, Devices, heap, poolLock,
                   deferredRemove, boot, last, hist>>
    /\ UNCHANGED <<metaFiles, savedNextDeviceID, backing, drvVars>>

\* devicemapper.CreateSnapDevice(pool, deviceID, baseName, baseInfo.DeviceID):
\* "exists" when the pool holds the ID already, an error when it does not
\* hold the base ID, and an error whenever the driver says so
createSnapResults(devs, id, baseID) ==
    IF id \in devs THEN {"exists"}
    ELSE IF baseID \in devs THEN Results ELSE {"err"}

AddCreate(t) ==
    /\ at(t, "a_create")
    /\ \E res \in createSnapResults(poolDevs, me(t).deviceID, heap[me(t).info].DeviceID) :
         /\ spend(res)
         /\ CASE res = "ok" ->
                   /\ poolDevs' = poolDevs \cup {me(t).deviceID}
                   /\ deviceIDMap' = deviceIDMap
                   /\ goto(t, "a_register")
              [] res = "exists" ->
                   /\ poolDevs' = poolDevs
                   /\ deviceIDMap' = deviceIDMap
                   /\ goto(t, "a_realloc")
              [] OTHER ->
                   /\ poolDevs' = poolDevs
                   /\ deviceIDMap' = markDeviceIDFree(deviceIDMap, me(t).deviceID)
                   /\ fail(t, "create")
    /\ UNCHANGED <<NextDeviceID, TransactionID, transaction, Devices, heap, poolLock,
                   deferredRemove, boot, last, hist>>
    /\ UNCHANGED <<diskVars, poolTxn, active, deferred, kmount>>

\* a retry that takes the ID after the one that collided, free or not
AddReallocNext(t) ==
    /\ at(t, "a_realloc")
    /\ LET id == incNextDeviceID(me(t).deviceID)
       IN  /\ deviceIDMap' = markDeviceIDUsed(deviceIDMap, id)
           /\ NextDeviceID' = id
           /\ transaction' = [transaction EXCEPT !.DeviceID = id]
           /\ transFile' = transFile
           /\ faulty' = faulty
           /\ setThr(t, [me(t) EXCEPT !.pc = "a_create", !.deviceID = id,
                                      !.stage = 1, !.todo = @ \cup {id}])
    /\ UNCHANGED <<TransactionID, Devices, heap, poolLock,
                   deferredRemove, boot, last, hist>>
    /\ UNCHANGED <<metaFiles, savedNextDeviceID, backing, drvVars>>

\* the ID exists in the pool: deviceID, err = devices.getNextFreeDeviceID(),
\* then devices.refreshTransaction(deviceID), whose error is dropped
AddRealloc(t) ==
    /\ at(t, "a_realloc")
    /\ LET r == getNextFreeDeviceID(deviceIDMap, NextDeviceID)
       IN  /\ deviceIDMap' = r.map
           /\ NextDeviceID' = r.next
           /\ IF r.ok
              THEN /\ transaction' = [transaction EXCEPT !.DeviceID = r.id]
                   /\ \E res \in Results :
                        /\ spend(res)
                        /\ transFile' = IF res = "ok"
                                        THEN [exists |-> TRUE,
                                              OpenTransactionID |-> transaction.OpenTransactionID,
                                              DeviceIDHash |-> transaction.DeviceIDHash,
                                              DeviceID |-> r.id]
                                        ELSE transFile
                   /\ setThr(t, [me(t) EXCEPT !.pc = "a_create", !.deviceID = r.id,
                                              !.stage = 1, !.todo = @ \cup {r.id}])
              ELSE /\ UNCHANGED <<transaction, transFile, faulty>>
                   /\ fail(t, "no free id")
    /\ UNCHANGED <<TransactionID, Devices, heap, poolLock,
                   deferredRemove, boot, last, hist>>
    /\ UNCHANGED <<metaFiles, savedNextDeviceID, backing, drvVars>>

\* a snapshot registered with the size of a new base device
registerSizeDefault(t) == baseFsSize

\* registerDevice, first half: the new devInfo enters the index
registerSize(t) == heap[me(t).info].Size

AddRegister(t) ==
    /\ at(t, "a_register")
    /\ LET o == newObj(heap)
       IN  /\ heap' = [heap EXCEPT ![o] =
                         [live |-> TRUE, Hash |-> me(t).hash,
                          DeviceID |-> me(t).deviceID, Size |-> registerSize(t),
                          TransactionID |-> transaction.OpenTransactionID,
                          Initialized |-> FALSE, mountCount |-> 0,
                          mountPath |-> "", lock |-> 0]]
           /\ Devices' = [Devices EXCEPT ![me(t).hash] = o]
    /\ goto(t, "a_save")
    /\ UNCHANGED <<deviceIDMap, NextDeviceID, TransactionID, transaction, poolLock,
                   deferredRemove, boot, faulty, last, hist>>
    /\ UNCHANGED <<diskVars, drvVars>>

\* registerDevice, second half: saveMetadata(info); on an error the entry
\* leaves the index again
AddSave(t) ==
    /\ at(t, "a_save")
    /\ \E res \in Results :
         /\ spend(res)
         /\ IF res = "ok"
            THEN /\ metaFiles' = [metaFiles EXCEPT ![me(t).hash] =
                                     fileOf(heap[Devices[me(t).hash]])]
                 /\ UNCHANGED <<Devices, heap>>
                 /\ goto(t, "a_close")
            ELSE /\ metaFiles' = metaFiles
                 /\ Devices' = [Devices EXCEPT ![me(t).hash] = 0]
                 /\ heap' = collect(heap, Devices', thr)
                 /\ setThr(t, [me(t) EXCEPT !.pc = "a_undo", !.err = "register"])
    /\ UNCHANGED <<deviceIDMap, NextDeviceID, TransactionID, transaction, poolLock,
                   deferredRemove, boot, last, hist>>
    /\ UNCHANGED <<transFile, savedNextDeviceID, backing, drvVars>>

\* devicemapper.SetTransactionId(pool, old, new): fails when the pool does
\* not hold the old ID, and whenever the driver says so
setTransactionResults(txn, old) == IF txn = old THEN Results ELSE {"err"}

\* a closeTransaction that sets devices.TransactionID before it looks at
\* the error of SetTransactionId
AddCloseEarly(t) ==
    /\ at(t, "a_close")
    /\ \E res \in setTransactionResults(poolTxn, TransactionID) :
         /\ spend(res)
         /\ TransactionID' = transaction.OpenTransactionID
         /\ IF res = "ok"
            THEN /\ poolTxn' = transaction.OpenTransactionID
                 /\ done(t)
            ELSE /\ UNCHANGED poolTxn
                 /\ setThr(t, [me(t) EXCEPT !.pc = "a_unreg", !.err = "close transaction"])
    /\ UNCHANGED <<deviceIDMap, NextDeviceID, transaction, Devices, heap, poolLock,
                   deferredRemove, boot, last, hist>>
    /\ UNCHANGED <<diskVars, poolDevs, active, deferred, kmount>>

\* closeTransaction: updatePoolTransactionID
AddClose(t) ==
    /\ at(t, "a_close")
    /\ \E res \in setTransactionResults(poolTxn, TransactionID) :
         /\ spend(res)
         /\ IF res = "ok"
            THEN /\ poolTxn' = transaction.OpenTransactionID
                 /\ TransactionID' = transaction.OpenTransactionID
                 /\ done(t)
            ELSE /\ UNCHANGED <<poolTxn, TransactionID>>
                 /\ setThr(t, [me(t) EXCEPT !.pc = "a_unreg", !.err = "close transaction"])
    /\ UNCHANGED <<deviceIDMap, NextDeviceID, transaction, Devices, heap, poolLock,
                   deferredRemove, boot, last, hist>>
    /\ UNCHANGED <<diskVars, poolDevs, active, deferred, kmount>>

\* unregisterDevice, first half: delete(devices.Devices, hash)
AddUnregister(t) ==
    /\ at(t, "a_unreg")
    /\ Devices' = [Devices EXCEPT ![me(t).hash] = 0]
    /\ heap' = collect(heap, Devices', thr)
    /\ goto(t, "a_unregrm")
    /\ UNCHANGED <<deviceIDMap, NextDeviceID, TransactionID, transaction, poolLock,
                   deferredRemove, boot, faulty, last, hist>>
    /\ UNCHANGED <<diskVars, drvVars>>

\* unregisterDevice, second half: removeMetadata; the error is dropped
AddUnregisterRemove(t) ==
    /\ at(t, "a_unregrm")
    /\ \E res \in Results :
         /\ spend(res)
         /\ metaFiles' = IF res = "ok" THEN [metaFiles EXCEPT ![me(t).hash] = NoFile]
                         ELSE metaFiles
    /\ goto(t, "a_undo")
    /\ UNCHANGED memVars
    /\ UNCHANGED <<transFile, savedNextDeviceID, backing, drvVars, boot, last, hist>>

\* devicemapper.DeleteDevice(pool, id): fails when the pool does not hold
\* the ID, and whenever the driver says so
deleteResults(devs, id) == IF id \in devs THEN Results ELSE {"err"}

\* the cleanup after a failed registerDevice or closeTransaction:
\* devicemapper.DeleteDevice, its error dropped, then markDeviceIDFree
AddUndo(t) ==
    /\ at(t, "a_undo")
    /\ \E res \in deleteResults(poolDevs, me(t).deviceID) :
         /\ spend(res)
         /\ poolDevs' = IF res = "ok" THEN poolDevs \ {me(t).deviceID} ELSE poolDevs
    /\ deviceIDMap' = markDeviceIDFree(deviceIDMap, me(t).deviceID)
    /\ goto(t, "unlockpool")
    /\ UNCHANGED <<NextDeviceID, TransactionID, transaction, Devices, heap, poolLock,
                   deferredRemove, boot, last, hist>>
    /\ UNCHANGED <<diskVars, poolTxn, active, deferred, kmount>>

AddDevice(t) ==
    \/ \E h \in OpHashes, b \in Hashes : Call(t, "AddDevice", h, b, "")
    \/ AddExists(t)
    \/ AddAlloc(t)
    \/ AddOpen(t)
    \/ AddCreate(t)
    \/ AddRegister(t)
    \/ AddSave(t)
    \/ AddClose(t)
    \/ AddUnregister(t)
    \/ AddUnregisterRemove(t)
    \/ AddUndo(t)

(***************************************************************************)
(* The helpers that talk to the driver for an activated device.  The       *)
(* device-mapper name of a device is derived from its hash, so a devInfo   *)
(* that left the index names the same device as its successor.             *)
(***************************************************************************)
keep == <<deferredRemove, boot, faulty, last, hist>>
keepf == <<deferredRemove, boot, last, hist>>

nameOf(t) == heap[me(t).info].Hash

to(r, pc)    == [r EXCEPT !.pc = pc]
failed(r, e) == [r EXCEPT !.pc = "unlockpool", !.err = e]

\* where the caller of activateDeviceIfNeeded goes on: deleteDevice
\* discards blocks only if the activation worked, and goes on either way
afterActivate(r) ==
    to(r, CASE r.op = "DeleteDevice" -> "d_getinfo"
            [] r.op = "MountDevice"  -> "m_mount"
            [] OTHER                 -> "s_status")
afterActivateError(r, e) ==
    IF r.op = "DeleteDevice" THEN to(r, "d_getinfo") ELSE failed(r, e)

\* a Shutdown that gave up at the first device it could not deactivate
afterRemoveErrorAbort(r, e) == failed(r, e)

\* where the caller of removeDevice or deactivateDevice goes on; Shutdown
\* logs an error and goes on
afterRemove(r) ==
    to(r, CASE r.op = "DeleteDevice"  -> "d_open"
            [] r.op = "UnmountDevice" -> "u_clear"
            [] OTHER                  -> "sd_unlockpool")
afterRemoveError(r, e) ==
    IF r.op = "Shutdown" THEN to(r, "sd_unlockpool") ELSE failed(r, e)

\* cancelDeferredRemoval, up to its loop: nothing to cancel without the
\* option or when GetInfoWithDeferred reports no deferred removal
CancelDeferredCheck(t) ==
    /\ at(t, "act_cancel")
    /\ IF deferredRemove /\ nameOf(t) \in deferred
       THEN setThr(t, [me(t) EXCEPT !.pc = "cd_try", !.i = 0])
       ELSE goto(t, "act_info")
    /\ UNCHANGED <<memVars, diskVars, drvVars, boot, faulty, last, hist>>

\* devicemapper.CancelDeferredRemove: ENXIO when the kernel has removed the
\* device by now, busy, or another error
cancelResults(act, dfr, n) ==
    IF n \notin act THEN {"enxio"}
    ELSE IF n \notin dfr THEN {"ok"}
    ELSE IF faulty > 0 THEN {"ok", "enxio", "busy", "fault"} ELSE {"ok", "enxio", "busy"}

\* one pass of the loop of cancelDeferredRemoval; on busy the pool lock is
\* released for the sleep
CancelDeferredTry(t) ==
    /\ at(t, "cd_try")
    /\ \E res \in cancelResults(active, deferred, nameOf(t)) :
         /\ spend(res)
         /\ CASE res = "ok" ->
                   /\ deferred' = deferred \ {nameOf(t)}
                   /\ UNCHANGED <<active, poolLock>>
                   /\ goto(t, "act_info")
              [] res = "enxio" ->
                   /\ deferred' = deferred \ {nameOf(t)}
                   /\ active' = active \ {nameOf(t)}
                   /\ UNCHANGED poolLock
                   /\ goto(t, "act_info")
              [] res = "busy" ->
                   /\ poolLock' = 0
                   /\ UNCHANGED <<active, deferred>>
                   /\ goto(t, "cd_relock")
              [] OTHER ->
                   /\ UNCHANGED <<active, deferred, poolLock>>
                   /\ setThr(t, afterActivateError(me(t), "cancel deferred removal"))
    /\ UNCHANGED <<deviceIDMap, NextDeviceID, TransactionID, transaction, Devices,
                   heap, diskVars, poolDevs, poolTxn, kmount, keepf>>

\* devices.Lock() after the sleep, then the next pass or the busy error
CancelDeferredRelock(t) ==
    /\ at(t, "cd_relock")
    /\ poolLock = 0
    /\ poolLock' = t
    /\ IF me(t).i + 1 < CancelAttempts
       THEN setThr(t, [me(t) EXCEPT !.pc = "cd_try", !.i = me(t).i + 1])
       ELSE setThr(t, afterActivateError([me(t) EXCEPT !.i = 0], "busy"))
    /\ UNCHANGED <<deviceIDMap, NextDeviceID, TransactionID, transaction, Devices,
                   heap, diskVars, drvVars, keep>>

\* devicemapper.ActivateDevice: fails when the pool does not hold the ID
activateResults(devs, id) == IF id \in devs THEN Results ELSE {"err"}

\* activateDeviceIfNeeded after the cancellation: GetInfo, and
\* ActivateDevice when the device does not exist
ActivateIfNeeded(t) ==
    /\ at(t, "act_info")
    /\ IF nameOf(t) \in active
       THEN /\ UNCHANGED <<active, faulty>>
            /\ setThr(t, afterActivate(me(t)))
       ELSE \E res \in activateResults(poolDevs, heap[me(t).info].DeviceID) :
              /\ spend(res)
              /\ IF res = "ok"
                 THEN /\ active' = active \cup {nameOf(t)}
                      /\ setThr(t, afterActivate([me(t) EXCEPT !.nact = @ + 1]))
                 ELSE /\ active' = active
                      /\ setThr(t, afterActivateError([me(t) EXCEPT !.nact = @ + 1],
                                                      "activate"))
    /\ UNCHANGED <<memVars, diskVars, poolDevs, poolTxn, deferred, kmount, keepf>>

\* devicemapper.RemoveDevice: busy while something uses the device
removeResults(act, n) ==
    IF n \notin act THEN {"err"}
    ELSE IF faulty > 0 THEN {"ok", "busy", "fault"} ELSE {"ok", "busy"}

\* one pass of the loop of removeDevice; on busy the pool lock is released
\* for the sleep
RemoveTry(t) ==
    /\ at(t, "rm_try")
    /\ \E res \in removeResults(active, nameOf(t)) :
         /\ spend(res)
         /\ CASE res = "ok" ->
                   /\ active' = active \ {nameOf(t)}
                   /\ deferred' = deferred \ {nameOf(t)}
                   /\ UNCHANGED poolLock
                   /\ setThr(t, afterRemove([me(t) EXCEPT !.i = 0]))
              [] res = "busy" ->
                   /\ poolLock' = 0
                   /\ UNCHANGED <<active, deferred>>
                   /\ goto(t, "rm_relock")
              [] OTHER ->
                   /\ UNCHANGED <<active, deferred, poolLock>>
                   /\ setThr(t, afterRemoveError([me(t) EXCEPT !.i = 0], "remove"))
    /\ UNCHANGED <<deviceIDMap, NextDeviceID, TransactionID, transaction, Devices,
                   heap, diskVars, poolDevs, poolTxn, kmount, keepf>>

\* a loop that makes one pass more than its bound
RemoveRelockOnceMore(t) ==
    /\ at(t, "rm_relock")
    /\ poolLock = 0
    /\ poolLock' = t
    /\ IF me(t).i + 1 <= RemoveAttempts
       THEN setThr(t, [me(t) EXCEPT !.pc = "rm_try", !.i = me(t).i + 1])
       ELSE setThr(t, afterRemoveError([me(t) EXCEPT !.i = 0], "busy"))
    /\ UNCHANGED <<deviceIDMap, NextDeviceID, TransactionID, transaction, Devices,
                   heap, diskVars, drvVars, keep>>

\* devices.Lock() after the sleep, then the next pass or the busy error
RemoveRelock(t) ==
    /\ at(t, "rm_relock")
    /\ poolLock = 0
    /\ poolLock' = t
    /\ IF me(t).i + 1 < RemoveAttempts
       THEN setThr(t, [me(t) EXCEPT !.pc = "rm_try", !.i = me(t).i + 1])
       ELSE setThr(t, afterRemoveError([me(t) EXCEPT !.i = 0], "busy"))
    /\ UNCHANGED <<deviceIDMap, NextDeviceID, TransactionID, transaction, Devices,
                   heap, diskVars, drvVars, keep>>

\* devicemapper.RemoveDeviceDeferred: the device goes at once, or when its
\* last user closes it
removeDeferredResults == IF faulty > 0 THEN {"removed", "deferred", "fault"}
                         ELSE {"removed", "deferred"}

\* deactivateDevice: nothing to do when GetInfo says the device does not
\* exist; a deferred removal with the option, removeDevice without
Deactivate(t) ==
    /\ at(t, "de_info")
    /\ LET r == [me(t) EXCEPT !.ndeact = @ + 1]
       IN  IF nameOf(t) \notin active
           THEN /\ UNCHANGED <<active, deferred, faulty>>
                /\ setThr(t, afterRemove(r))
           ELSE IF deferredRemove
           THEN \E res \in removeDeferredResults :
                  /\ spend(res)
                  /\ CASE res = "removed" ->
                            /\ active' = active \ {nameOf(t)}
                            /\ deferred' = deferred \ {nameOf(t)}
                            /\ setThr(t, afterRemove(r))
                       [] res = "deferred" ->
                            /\ active' = active
                            /\ deferred' = deferred \cup {nameOf(t)}
                            /\ setThr(t, afterRemove(r))
                       [] OTHER ->
                            /\ UNCHANGED <<active, deferred>>
                            /\ setThr(t, afterRemoveError(r, "remove deferred"))
           ELSE /\ UNCHANGED <<active, deferred, faulty>>
                /\ setThr(t, [r EXCEPT !.pc = "rm_try", !.i = 0])
    /\ UNCHANGED <<memVars, diskVars, poolDevs, poolTxn, kmount, keepf>>

Locks(t) ==
    \/ LockDevice(t)
    \/ LockPool(t)
    \/ UnlockPool(t)
    \/ UnlockDevice(t)
    \/ Return(t)

CancelDeferred(t) ==
    \/ CancelDeferredTry(t)
    \/ CancelDeferredRelock(t)

Remove(t) ==
    \/ RemoveTry(t)
    \/ RemoveRelock(t)

(***************************************************************************)
(* DeleteDevice(hash): deleteDevice under the device lock and the pool     *)
(* lock.  doBlkDiscard is on, as NewDeviceSet sets it: the device is       *)
(* activated first (CancelDeferredCheck, ActivateIfNeeded), and the result *)
(* of the discard is dropped.                                              *)
(***************************************************************************)
\* a deleteDevice that opens its transaction without removing the device
DeleteGetInfoSkip(t) ==
    /\ at(t, "d_getinfo")
    /\ goto(t, "d_open")
    /\ UNCHANGED <<memVars, diskVars, drvVars, keep>>

\* devinfo, _ := devicemapper.GetInfo(info.Name()): an existing device is
\* removed first
DeleteGetInfo(t) ==
    /\ at(t, "d_getinfo")
    /\ IF nameOf(t) \in active
       THEN setThr(t, [me(t) EXCEPT !.pc = "rm_try", !.i = 0])
       ELSE goto(t, "d_open")
    /\ UNCHANGED <<memVars, diskVars, drvVars, keep>>

\* openTransaction(info.Hash, info.DeviceID)
DeleteOpen(t) ==
    /\ at(t, "d_open")
    /\ LET tr == [OpenTransactionID |-> TransactionID + 1,
                  DeviceIDHash |-> heap[me(t).info].Hash,
                  DeviceID |-> heap[me(t).info].DeviceID]
       IN  /\ transaction' = tr
           /\ \E res \in Results :
                /\ spend(res)
                /\ IF res = "ok"
                   THEN /\ transFile' = [exists |-> TRUE,
                                         OpenTransactionID |-> tr.OpenTransactionID,
                                         DeviceIDHash |-> tr.DeviceIDHash,
                                         DeviceID |-> tr.DeviceID]
                        /\ goto(t, "d_delete")
                   ELSE /\ transFile' = transFile
                        /\ fail(t, "open transaction")
    /\ UNCHANGED <<deviceIDMap, NextDeviceID, TransactionID, Devices, heap, poolLock,
                   metaFiles, savedNextDeviceID, backing, drvVars, keepf>>

\* devicemapper.DeleteDevice(pool, info.DeviceID)
DeleteDelete(t) ==
    /\ at(t, "d_delete")
    /\ \E res \in deleteResults(poolDevs, heap[me(t).info].DeviceID) :
         /\ spend(res)
         /\ IF res = "ok"
            THEN /\ poolDevs' = poolDevs \ {heap[me(t).info].DeviceID}
                 /\ goto(t, "d_unreg")
            ELSE /\ poolDevs' = poolDevs
                 /\ fail(t, "delete")
    /\ UNCHANGED <<memVars, diskVars, poolTxn, active, deferred, kmount, keepf>>

\* unregisterDevice, first half: delete(devices.Devices, hash)
DeleteUnregister(t) ==
    /\ at(t, "d_unreg")
    /\ Devices' = [Devices EXCEPT ![heap[me(t).info].Hash] = 0]
    /\ heap' = collect(heap, Devices', thr)
    /\ goto(t, "d_unregrm")
    /\ UNCHANGED <<deviceIDMap, NextDeviceID, TransactionID, transaction, poolLock,
                   diskVars, drvVars, keep>>

\* unregisterDevice, second half: removeMetadata
DeleteUnregisterRemove(t) ==
    /\ at(t, "d_unregrm")
    /\ \E res \in Results :
         /\ spend(res)
         /\ IF res = "ok"
            THEN /\ metaFiles' = [metaFiles EXCEPT ![heap[me(t).info].Hash] = NoFile]
                 /\ goto(t, "d_close")
            ELSE /\ metaFiles' = metaFiles
                 /\ fail(t, "remove metadata")
    /\ UNCHANGED <<memVars, transFile, savedNextDeviceID, backing, drvVars, keepf>>

\* closeTransaction, then markDeviceIDFree(info.DeviceID)
DeleteClose(t) ==
    /\ at(t, "d_close")
    /\ \E res \in setTransactionResults(poolTxn, TransactionID) :
         /\ spend(res)
         /\ IF res = "ok"
            THEN /\ poolTxn' = transaction.OpenTransactionID
                 /\ TransactionID' = transaction.OpenTransactionID
                 /\ deviceIDMap' = markDeviceIDFree(deviceIDMap, heap[me(t).info].DeviceID)
                 /\ done(t)
            ELSE /\ UNCHANGED <<poolTxn, TransactionID, deviceIDMap>>
                 /\ fail(t, "close transaction")
    /\ UNCHANGED <<NextDeviceID, transaction, Devices, heap, poolLock,
                   diskVars, poolDevs, active, deferred, kmount, keepf>>

DeleteDevice(t) ==
    \/ \E h \in OpHashes : Call(t, "DeleteDevice", h, h, "")
    \/ DeleteGetInfo(t)
    \/ DeleteOpen(t)
    \/ DeleteDelete(t)
    \/ DeleteUnregister(t)
    \/ DeleteUnregisterRemove(t)
    \/ DeleteClose(t)

(***************************************************************************)
(* MountDevice(hash, path, mountLabel) and UnmountDevice(hash).            *)
(***************************************************************************)
\* MountDevice without the count: every call with the right path mounts
MountCheckNoCount(t) ==
    /\ at(t, "m_check")
    /\ LET o == me(t).info
       IN  IF heap[o].mountCount > 0 /\ me(t).path # heap[o].mountPath
           THEN fail(t, "mount path")
           ELSE goto(t, "act_cancel")
    /\ UNCHANGED <<memVars, diskVars, drvVars, keep>>

\* a mounted device: the paths must agree, and only the count moves
MountCheck(t) ==
    /\ at(t, "m_check")
    /\ LET o == me(t).info
       IN  IF heap[o].mountCount > 0
           THEN IF me(t).path # heap[o].mountPath
                THEN /\ heap' = heap
                     /\ fail(t, "mount path")
                ELSE /\ heap' = [heap EXCEPT ![o].mountCount = @ + 1]
                     /\ done(t)
           ELSE /\ heap' = heap
                /\ goto(t, "act_cancel")
    /\ UNCHANGED <<deviceIDMap, NextDeviceID, TransactionID, transaction, Devices,
                   poolLock, diskVars, drvVars, keep>>

\* ProbeFsType, then syscall.Mount; the kernel takes a bounded stack of
\* mounts of one device
mountResults(n) ==
    (IF n < MaxKMount THEN {"ok"} ELSE {"err"})
        \cup (IF faulty > 0 THEN {"probe", "fault"} ELSE {})

MountMount(t) ==
    /\ at(t, "m_mount")
    /\ \E res \in mountResults(kmount[nameOf(t)]) :
         /\ spend(res)
         /\ CASE res = "ok" ->
                   /\ kmount' = [kmount EXCEPT ![nameOf(t)] = @ + 1]
                   /\ heap' = [heap EXCEPT ![me(t).info].mountCount = 1,
                                           ![me(t).info].mountPath = me(t).path]
                   /\ setThr(t, [me(t) EXCEPT !.pc = "unlockpool", !.nmount = @ + 1])
              [] res = "probe" ->
                   /\ UNCHANGED <<kmount, heap>>
                   /\ fail(t, "probe")
              [] OTHER ->
                   /\ UNCHANGED <<kmount, heap>>
                   /\ setThr(t, [failed(me(t), "mount") EXCEPT !.nmount = @ + 1])
    /\ UNCHANGED <<deviceIDMap, NextDeviceID, TransactionID, transaction, Devices,
                   poolLock, diskVars, poolDevs, poolTxn, active, deferred, keepf>>

MountDevice(t) ==
    \/ \E h \in OpHashes, p \in Paths : Call(t, "MountDevice", h, h, p)
    \/ MountCheck(t)
    \/ MountMount(t)

\* UnmountDevice that unmounts at every call
UnmountCheckAlways(t) ==
    /\ at(t, "u_check")
    /\ LET o == me(t).info
       IN  IF heap[o].mountCount = 0
           THEN /\ heap' = heap
                /\ fail(t, "not mounted")
           ELSE /\ heap' = [heap EXCEPT ![o].mountCount = @ - 1]
                /\ goto(t, "u_unmount")
    /\ UNCHANGED <<deviceIDMap, NextDeviceID, TransactionID, transaction, Devices,
                   poolLock, diskVars, drvVars, keep>>

\* UnmountDevice without the check of the count
UnmountCheckBlind(t) ==
    /\ at(t, "u_check")
    /\ LET o == me(t).info
       IN  /\ heap' = [heap EXCEPT ![o].mountCount = @ - 1]
           /\ IF heap[o].mountCount - 1 > 0 THEN done(t) ELSE goto(t, "u_unmount")
    /\ UNCHANGED <<deviceIDMap, NextDeviceID, TransactionID, transaction, Devices,
                   poolLock, diskVars, drvVars, keep>>

\* the count is checked and decremented
UnmountCheck(t) ==
    /\ at(t, "u_check")
    /\ LET o == me(t).info
       IN  IF heap[o].mountCount = 0
           THEN /\ heap' = heap
                /\ fail(t, "not mounted")
           ELSE /\ heap' = [heap EXCEPT ![o].mountCount = @ - 1]
                /\ IF heap[o].mountCount - 1 > 0 THEN done(t) ELSE goto(t, "u_unmount")
    /\ UNCHANGED <<deviceIDMap, NextDeviceID, TransactionID, transaction, Devices,
                   poolLock, diskVars, drvVars, keep>>

\* syscall.Unmount(path, MNT_DETACH): fails when nothing is mounted
unmountResults(n) == IF n > 0 THEN Results ELSE {"err"}

\* the count reached 0: syscall.Unmount(info.mountPath, MNT_DETACH), then
\* deactivateDevice (Deactivate)
UnmountUnmount(t) ==
    /\ at(t, "u_unmount")
    /\ \E res \in unmountResults(kmount[nameOf(t)]) :
         /\ spend(res)
         /\ IF res = "ok"
            THEN /\ kmount' = [kmount EXCEPT ![nameOf(t)] = @ - 1]
                 /\ setThr(t, [me(t) EXCEPT !.pc = "de_info", !.numount = @ + 1])
            ELSE /\ kmount' = kmount
                 /\ setThr(t, [failed(me(t), "unmount") EXCEPT !.numount = @ + 1])
    /\ UNCHANGED <<memVars, diskVars, poolDevs, poolTxn, active, deferred, keepf>>

\* info.mountPath = ""
UnmountClear(t) ==
    /\ at(t, "u_clear")
    /\ heap' = [heap EXCEPT ![me(t).info].mountPath = ""]
    /\ done(t)
    /\ UNCHANGED <<deviceIDMap, NextDeviceID, TransactionID, transaction, Devices,
                   poolLock, diskVars, drvVars, keep>>

UnmountDevice(t) ==
    \/ \E h \in OpHashes : Call(t, "UnmountDevice", h, h, "")
    \/ UnmountCheck(t)
    \/ UnmountUnmount(t)
    \/ UnmountClear(t)

(***************************************************************************)
(* GetDeviceStatus(hash) and HasActivatedDevice(hash).                     *)
(***************************************************************************)
\* devices.deviceStatus after activateDeviceIfNeeded
StatusStatus(t) ==
    /\ at(t, "s_status")
    /\ \E res \in Results : spend(res) /\ (IF res = "ok" THEN done(t) ELSE fail(t, "status"))
    /\ UNCHANGED <<memVars, diskVars, drvVars, keepf>>

GetDeviceStatus(t) ==
    \/ \E h \in OpHashes : Call(t, "GetDeviceStatus", h, h, "")
    \/ StatusStatus(t)

\* devinfo, _ := devicemapper.GetInfo(info.Name())
HasActivatedInfo(t) ==
    /\ at(t, "h_info")
    /\ setThr(t, [me(t) EXCEPT !.pc = "unlockpool",
                               !.err = IF nameOf(t) \in active THEN "" ELSE "false"])
    /\ UNCHANGED <<memVars, diskVars, drvVars, keep>>

HasActivatedDevice(t) ==
    \/ \E h \in OpHashes : Call(t, "HasActivatedDevice", h, h, "")
    \/ HasActivatedInfo(t)

(***************************************************************************)
(* Shutdown(): every device of the index with a mount count, then the base *)
(* device, then the pool and deviceset-metadata.  stage 0 is the loop over *)
(* the devices, stage 1 the base device, stage 2 the pool.                 *)
(***************************************************************************)
\* the devices of the index are collected under devicesLock
ShutdownCall(t) ==
    /\ at(t, "idle")
    /\ devicesLockFree
    /\ setThr(t, [Idle EXCEPT !.op = "Shutdown", !.pc = "sd_pick",
                              !.todo = {Devices[h] : h \in Hashes} \ {0}])
    /\ hist.calls > 0
    /\ hist' = [NoHist EXCEPT !.calls = hist.calls - 1]
    /\ UNCHANGED <<memVars, diskVars, drvVars, boot, faulty, last>>

\* the next device of the loop (a map is ranged over in any order); after
\* the loop, info, _ := devices.lookupDevice("")
ShutdownPick(t) ==
    /\ at(t, "sd_pick")
    /\ IF me(t).todo # {}
       THEN /\ \E o \in me(t).todo :
                 setThr(t, [me(t) EXCEPT !.pc = "sd_lockdev", !.info = o,
                                         !.todo = @ \ {o}])
            /\ UNCHANGED <<Devices, heap>>
       ELSE LET r == lookupDevice(Devices, heap, metaFiles, "")
            IN  /\ devicesLockFree
                /\ Devices' = r.devs
                /\ heap' = r.heap
                /\ IF r.info # 0
                   THEN setThr(t, [me(t) EXCEPT !.pc = "sd_lockdev", !.info = r.info,
                                                !.stage = 1])
                   ELSE setThr(t, [me(t) EXCEPT !.pc = "lockpool", !.stage = 2])
    /\ UNCHANGED <<deviceIDMap, NextDeviceID, TransactionID, transaction, poolLock,
                   diskVars, drvVars, keep>>

\* info.lock.Lock(); in the loop a device without a mount count is left alone
ShutdownLockDevice(t) ==
    /\ at(t, "sd_lockdev")
    /\ heap[me(t).info].lock = 0
    /\ heap' = [heap EXCEPT ![me(t).info].lock = t]
    /\ goto(t, IF me(t).stage = 1 THEN "lockpool"
               ELSE IF heap[me(t).info].mountCount > 0 THEN "sd_unmount"
               ELSE "sd_unlockdev")
    /\ UNCHANGED <<deviceIDMap, NextDeviceID, TransactionID, transaction, Devices,
                   poolLock, diskVars, drvVars, keep>>

\* syscall.Unmount(info.mountPath, MNT_DETACH), the error logged
ShutdownUnmount(t) ==
    /\ at(t, "sd_unmount")
    /\ \E res \in unmountResults(kmount[nameOf(t)]) :
         /\ spend(res)
         /\ kmount' = IF res = "ok" THEN [kmount EXCEPT ![nameOf(t)] = @ - 1] ELSE kmount
    /\ setThr(t, [me(t) EXCEPT !.pc = "lockpool", !.numount = @ + 1])
    /\ UNCHANGED <<memVars, diskVars, poolDevs, poolTxn, active, deferred, keepf>>

\* devices.Unlock() after deactivateDevice
ShutdownUnlockPool(t) ==
    /\ at(t, "sd_unlockpool")
    /\ poolLock' = 0
    /\ goto(t, "sd_unlockdev")
    /\ UNCHANGED <<deviceIDMap, NextDeviceID, TransactionID, transaction, Devices,
                   heap, diskVars, drvVars, keep>>

\* info.lock.Unlock(): on to the next device, or to the pool
ShutdownUnlockDevice(t) ==
    /\ at(t, "sd_unlockdev")
    /\ LET r == IF me(t).stage = 1
                THEN [me(t) EXCEPT !.pc = "lockpool", !.stage = 2, !.info = 0]
                ELSE [me(t) EXCEPT !.pc = "sd_pick", !.info = 0]
       IN  /\ thr' = [thr EXCEPT ![t] = r]
           /\ heap' = collect([heap EXCEPT ![me(t).info].lock = 0], Devices,
                              [thr EXCEPT ![t] = r])
    /\ UNCHANGED <<deviceIDMap, NextDeviceID, TransactionID, transaction, Devices,
                   poolLock, diskVars, drvVars, keep>>

\* under the pool lock: deactivatePool, then saveDeviceSetMetaData, its
\* error dropped, and devices.Unlock()
ShutdownPool(t) ==
    /\ at(t, "sd_pool")
    /\ \E rp \in Results, res \in Results :
         /\ faulty' = faulty - (IF ~backing.external /\ rp = "fault" THEN 1 ELSE 0)
                             - (IF res = "fault" THEN 1 ELSE 0)
         /\ faulty' >= 0
         /\ backing.external => rp = "ok"
         /\ backing' = IF ~backing.external /\ rp = "ok"
                       THEN [backing EXCEPT !.poolUp = FALSE]
                       ELSE backing
         /\ savedNextDeviceID' = IF res = "ok" THEN NextDeviceID ELSE savedNextDeviceID
    /\ poolLock' = 0
    /\ setThr(t, [me(t) EXCEPT !.pc = "ret", !.nsave = @ + 1,
                               !.npool = IF backing.external THEN @ ELSE @ + 1])
    /\ UNCHANGED <<deviceIDMap, NextDeviceID, TransactionID, transaction, Devices,
                   heap, metaFiles, transFile, drvVars, keepf>>

Shutdown(t) ==
    \/ ShutdownCall(t)
    \/ ShutdownPick(t)
    \/ ShutdownLockDevice(t)
    \/ ShutdownUnmount(t)
    \/ ShutdownUnlockPool(t)
    \/ ShutdownUnlockDevice(t)
    \/ ShutdownPool(t)

(***************************************************************************)
(* A kill of the daemon and its next start: initMetaData,                  *)
(* loadDeviceSetMetaData and setupBaseImage of initDevmapper.  The pool,   *)
(* the activated devices and the mounts outlive the process.               *)
(***************************************************************************)
Kill ==
    /\ deviceIDMap' = mapOf({})
    /\ NextDeviceID' = 0
    /\ TransactionID' = 0
    /\ transaction' = ZeroTransaction
    /\ Devices' = [h \in Hashes |-> 0]
    /\ heap' = [o \in ObjIds |-> NoObj]
    /\ poolLock' = 0
    /\ thr' = [t \in Threads |-> Idle]
    /\ boot' = "start"
    /\ hist' = IF boot = "up" THEN [hist EXCEPT !.kill = thr] ELSE hist
    /\ UNCHANGED <<deferredRemove, faulty, last, diskVars, drvVars>>

\* deviceFileWalkFunction over the metadata directory: every file that is
\* not deviceset-metadata, not hidden and not *.migrated is read as a
\* device file, and the ID it records is marked used unless it is above
\* maxDeviceID
walkedIDs(files, tf) ==
    {files[h].DeviceID : h \in {x \in Hashes : files[x].exists /\ files[x].valid}}
        \cup OtherDeviceIDs
        \cup (IF tf.exists THEN {tf.DeviceID} ELSE {})

constructDeviceIDMap(files, tf) ==
    mapOf({d \in walkedIDs(files, tf) : d <= maxDeviceID})

\* loadMetadata returns nil for a file that json.Unmarshal rejects, and
\* deviceFileWalkFunction returns an error that ends filepath.Walk
walkFails(files) == \E h \in Hashes : files[h].exists /\ ~files[h].valid

\* initMetaData: the transaction ID of the pool, then constructDeviceIDMap;
\* a walk that fails has marked the IDs of the files it met before, and
\* initMetaData returns its error
BootWalk ==
    /\ boot = "start"
    /\ TransactionID' = poolTxn
    /\ IF walkFails(metaFiles)
       THEN /\ \E S \in SUBSET (walkedIDs(metaFiles, transFile) \ OtherDeviceIDs),
                   O \in {{}, OtherDeviceIDs} :
                 deviceIDMap' = mapOf({d \in S \cup O : d <= maxDeviceID})
            /\ boot' = "failed"
       ELSE /\ deviceIDMap' = constructDeviceIDMap(metaFiles, transFile)
            /\ boot' = "pending"
    /\ UNCHANGED <<NextDeviceID, transaction, Devices, heap, poolLock, deferredRemove,
                   diskVars, drvVars, thr, faulty, last, hist>>

\* loadTransactionMetaData: without a file the open ID is the pool's
loadTransactionMetaData(tf, txn) ==
    IF tf.exists
    THEN [OpenTransactionID |-> tf.OpenTransactionID,
          DeviceIDHash |-> tf.DeviceIDHash, DeviceID |-> tf.DeviceID]
    ELSE [ZeroTransaction EXCEPT !.OpenTransactionID = txn]

\* a processPendingTransaction that rolls back whenever the IDs differ
needsRollbackAlways(open, txn) == ~(txn = open)

\* whether processPendingTransaction rolls back
needsRollback(open, txn) == ~(txn = open) /\ ~(open < txn)

\* the metadata file of the hash of the transaction record, when there is
\* one, names the device ID of the record, and no other metadata file does
recordAgrees(files, tf) ==
    /\ files[tf.DeviceIDHash].exists => files[tf.DeviceIDHash].DeviceID = tf.DeviceID
    /\ \A g \in Hashes \ {tf.DeviceIDHash} :
          files[g].exists => files[g].DeviceID # tf.DeviceID
    /\ tf.DeviceID \notin OtherDeviceIDs

\* processPendingTransaction up to the rollback
BootPending ==
    /\ boot = "pending"
    /\ LET tr == loadTransactionMetaData(transFile, TransactionID)
       IN  /\ transaction' = tr
           /\ IF needsRollback(tr.OpenTransactionID, TransactionID)
              THEN /\ boot' = "rb_delete"
                   /\ hist' = [hist EXCEPT !.pend = transFile,
                                           !.agrees = recordAgrees(metaFiles, transFile)]
              ELSE /\ boot' = "loadset"
                   /\ hist' = hist
    /\ UNCHANGED <<deviceIDMap, NextDeviceID, TransactionID, Devices, heap, poolLock,
                   deferredRemove, diskVars, drvVars, thr, faulty, last>>

\* a rollback that gives the start up when the driver cannot delete
RollbackDeleteStrict ==
    /\ boot = "rb_delete"
    /\ \E res \in deleteResults(poolDevs, transaction.DeviceID) :
         /\ spend(res)
         /\ poolDevs' = IF res = "ok" THEN poolDevs \ {transaction.DeviceID} ELSE poolDevs
         /\ boot' = IF res = "ok" THEN "rb_rmmeta" ELSE "failed"
    /\ UNCHANGED <<memVars, diskVars, poolTxn, active, deferred, kmount, thr,
                   last, hist>>

\* rollbackTransaction: devicemapper.DeleteDevice, a failure logged
RollbackDelete ==
    /\ boot = "rb_delete"
    /\ \E res \in deleteResults(poolDevs, transaction.DeviceID) :
         /\ spend(res)
         /\ poolDevs' = IF res = "ok" THEN poolDevs \ {transaction.DeviceID} ELSE poolDevs
    /\ boot' = "rb_rmmeta"
    /\ UNCHANGED <<memVars, diskVars, poolTxn, active, deferred, kmount, thr,
                   last, hist>>

\* rollbackTransaction: removeMetadata, and markDeviceIDFree if it worked
RollbackMetadata ==
    /\ boot = "rb_rmmeta"
    /\ \E res \in Results :
         /\ spend(res)
         /\ IF res = "ok"
            THEN /\ metaFiles' = [metaFiles EXCEPT ![transaction.DeviceIDHash] = NoFile]
                 /\ deviceIDMap' = markDeviceIDFree(deviceIDMap, transaction.DeviceID)
                 /\ hist' = hist
            ELSE /\ UNCHANGED <<metaFiles, deviceIDMap>>
                 /\ hist' = [hist EXCEPT !.rmOk = FALSE]
    /\ boot' = "rb_rmtrans"
    /\ UNCHANGED <<NextDeviceID, TransactionID, transaction, Devices, heap, poolLock,
                   deferredRemove, transFile, savedNextDeviceID, backing, drvVars, thr,
                   last>>

\* rollbackTransaction: removeTransactionMetaData, a failure logged; then
\* devices.OpenTransactionID = devices.TransactionID
RollbackTransactionFile ==
    /\ boot = "rb_rmtrans"
    /\ \E res \in Results :
         /\ spend(res)
         /\ IF res = "ok"
            THEN /\ transFile' = NoTrans
                 /\ hist' = [hist EXCEPT !.rolled = TRUE]
            ELSE /\ transFile' = transFile
                 /\ hist' = [hist EXCEPT !.rolled = TRUE, !.rmOk = FALSE]
    /\ transaction' = [transaction EXCEPT !.OpenTransactionID = TransactionID]
    /\ boot' = "loadset"
    /\ UNCHANGED <<deviceIDMap, NextDeviceID, TransactionID, Devices, heap, poolLock,
                   deferredRemove, metaFiles, savedNextDeviceID, backing, drvVars, thr,
                   last>>

\* what a start leaves behind, for the comparison with the next one
snapshot == <<deviceIDMap, NextDeviceID, TransactionID, transaction.OpenTransactionID,
              metaFiles, transFile, savedNextDeviceID, poolDevs, poolTxn>>

\* loadDeviceSetMetaData (NextDeviceID), then setupBaseImage, which looks
\* the initialized base device up
BootLoadSet ==
    /\ boot = "loadset"
    /\ NextDeviceID' = savedNextDeviceID
    /\ LET r == lookupDevice(Devices, heap, metaFiles, "")
       IN  /\ Devices' = r.devs
           /\ heap' = r.heap
    /\ boot' = "up"
    /\ UNCHANGED <<deviceIDMap, TransactionID, transaction, poolLock, deferredRemove,
                   diskVars, drvVars, thr, faulty, last>>
    /\ hist' = [hist EXCEPT !.quiet = (hist.snap # <<>>),
                            !.snap = IF hist.snap = <<>> THEN <<snapshot'>> ELSE @]

Startup ==
    \/ BootWalk
    \/ BootPending
    \/ RollbackDelete
    \/ RollbackMetadata
    \/ RollbackTransactionFile
    \/ BootLoadSet

(***************************************************************************)
(* Specifications.                                                         *)
(***************************************************************************)
InitCrash == Init /\ ~deferredRemove
InitAll == Init /\ deferredRemove
InitMount == InitWith(MaxMountCalls)

\* one caller of AddDevice and DeleteDevice, kills and restarts; a device
\* ID that exists in the pool is met only after a kill
NextCrash ==
    \/ AddDevice(1)
    \/ AddRealloc(1)
    \/ DeleteDevice(1)
    \/ Locks(1)
    \/ CancelDeferredCheck(1)
    \/ ActivateIfNeeded(1)
    \/ Remove(1)
    \/ Kill
    \/ Startup

SpecCrash == InitCrash /\ [][NextCrash]_vars

\* callers of AddDevice and DeleteDevice in parallel
NextConc ==
    \E t \in Threads :
        \/ AddDevice(t)
        \/ DeleteDevice(t)
        \/ Locks(t)
        \/ CancelDeferredCheck(t)
        \/ ActivateIfNeeded(t)
        \/ Remove(t)

SpecConc == InitCrash /\ [][NextConc]_vars

\* callers of MountDevice and UnmountDevice in parallel
NextMount ==
    \E t \in Threads :
        \/ MountDevice(t)
        \/ UnmountDevice(t)
        \/ Locks(t)
        \/ CancelDeferredCheck(t)
        \/ CancelDeferred(t)
        \/ ActivateIfNeeded(t)
        \/ Remove(t)
        \/ Deactivate(t)

SpecMount == InitMount /\ [][NextMount]_vars

\* every public operation, in parallel
Next ==
    \E t \in Threads :
        \/ AddDevice(t)
        \/ DeleteDevice(t)
        \/ MountDevice(t)
        \/ UnmountDevice(t)
        \/ GetDeviceStatus(t)
        \/ HasActivatedDevice(t)
        \/ Shutdown(t)
        \/ Locks(t)
        \/ CancelDeferredCheck(t)
        \/ CancelDeferred(t)
        \/ ActivateIfNeeded(t)
        \/ Remove(t)
        \/ Deactivate(t)

Spec == InitAll /\ [][Next]_vars

(***************************************************************************)
(* Properties of a kill and the restart after it (SpecCrash).              *)
(***************************************************************************)
\* the call the kill interrupted, and whether the first start after the
\* kill is through
killed == hist.kill[1]
restarted == boot = "up" /\ hist.snap # <<>>

\* AddDevice was killed after the allocation of its device ID and did not
\* fail before
killedInAddDevice ==
    /\ killed.op = "AddDevice"
    /\ killed.err = ""
    /\ killed.pc \in {"a_open", "a_create", "a_realloc", "a_register", "a_save",
                      "a_close", "unlockpool", "unlockdev", "ret"}

\* hash is fully registered
registered(h) ==
    /\ metaFiles[h].exists
    /\ metaFiles[h].DeviceID \in poolDevs
    /\ ~isDeviceIDFree(deviceIDMap, metaFiles[h].DeviceID)
    /\ poolTxn = metaFiles[h].TransactionID

\* no trace of hash and of the ID allocated for it
noTrace(h, d) ==
    /\ ~metaFiles[h].exists
    /\ d \notin poolDevs
    /\ isDeviceIDFree(deviceIDMap, d)

\* C1: after a kill at a step of AddDevice(hash, baseHash) behind the
\* allocation of the ID and the start that follows, with no failure of a
\* driver or file call, hash is fully registered or no trace of it remains.
C1_CrashAtomicity ==
    (restarted /\ killedInAddDevice /\ faulty = MaxFaults) =>
        \/ registered(killed.hash)
        \/ noTrace(killed.hash, killed.deviceID)

\* a start found the transaction record hist.pend pending, one ahead of
\* the pool, and a rollback of it ran to its end
rolledBack ==
    /\ hist.pend.exists
    /\ hist.pend.OpenTransactionID = TransactionID + 1
    /\ hist.rolled
    /\ boot \in {"loadset", "up"}

\* what the rollback of hist.pend is to leave
rollbackDone ==
    /\ isDeviceIDFree(deviceIDMap, hist.pend.DeviceID)
    /\ ~metaFiles[hist.pend.DeviceIDHash].exists
    /\ ~transFile.exists
    /\ transaction.OpenTransactionID = TransactionID

\* a second start is through after the one that found hist.pend
restartedAgain == hist.pend.exists /\ hist.quiet /\ boot = "up"

C1_Witness ==
    /\ restarted
    /\ killedInAddDevice
    /\ killed.pc = "a_close"
    /\ hist.rolled
    /\ faulty = MaxFaults
    /\ noTrace(killed.hash, killed.deviceID)

(***************************************************************************)
(* Properties of AddDevice (SpecCrash).                                    *)
(***************************************************************************)
\* what a rejected AddDevice may not touch
addState == <<deviceIDMap, NextDeviceID, transaction, transFile, TransactionID, poolTxn,
              metaFiles, poolDevs>>

\* a step of the caller into AddDevice, up to the check for the hash
addEntering ==
    /\ thr'[1].op = "AddDevice"
    /\ thr'[1].pc \in {"lockdev", "lockpool", "a_exists"}

\* a step of the caller on its way back with the already-exists error
addRejected ==
    /\ thr[1].op = "AddDevice"
    /\ thr[1].err = "exists"
    /\ boot' = "up"

\* the step that ends a successful createRegisterSnapDevice
addSucceeds ==
    /\ thr[1].op = "AddDevice"
    /\ thr[1].pc = "a_close"
    /\ thr'[1].pc = "unlockpool"
    /\ thr'[1].err = ""

\* the step that allocates the device ID, the first time or after a
\* collision
addAllocates ==
    /\ thr[1].op = "AddDevice"
    /\ thr[1].pc \in {"a_alloc", "a_realloc"}
    /\ thr'[1].pc \in {"a_open", "a_create"}

\* C9: a successful AddDevice(hash, baseHash) registers hash with the Size
\* of the base device, an ID that was free when it was allocated and the
\* pool's TransactionID after the call; AddDevice for a registered hash
\* returns the already-exists error and changes neither the bitmap, the
\* cursor, the transaction record nor the pool's TransactionID.
C9_SnapshotChaining ==
    [][ /\ addAllocates => isDeviceIDFree(deviceIDMap, thr'[1].deviceID)
        /\ addSucceeds =>
              LET h == thr[1].hash
                  o == heap'[Devices'[h]]
              IN  /\ Devices'[h] # 0
                  /\ metaFiles'[h] = fileOf(o)
                  /\ o.Size = heap[thr[1].info].Size
                  /\ o.Size = metaFiles[thr[1].base].Size
                  /\ o.DeviceID = thr[1].deviceID
                  /\ o.DeviceID \in poolDevs'
                  /\ ~isDeviceIDFree(deviceIDMap', o.DeviceID)
                  /\ o.TransactionID = TransactionID'
                  /\ TransactionID' = poolTxn'
                  /\ TransactionID' = TransactionID + 1
        /\ (thr[1].op = "AddDevice" /\ thr[1].pc = "a_exists"
              /\ metaFiles[thr[1].hash].exists /\ boot' = "up") =>
              thr'[1].err = "exists"
        /\ (addEntering \/ addRejected) => UNCHANGED addState
      ]_vars

\* hash b was registered by an AddDevice on top of a, and the next
\* AddDevice for b is on its way back with the error
C9_Witness ==
    /\ thr[1].op = "AddDevice"
    /\ thr[1].hash = "b"
    /\ thr[1].err = "exists"
    /\ thr[1].pc = "ret"
    /\ metaFiles["b"].exists
    /\ metaFiles["b"].Size = metaFiles["a"].Size
    /\ metaFiles["b"].TransactionID = poolTxn
    /\ hist.calls = MaxCalls - 2

(***************************************************************************)
(* Properties of parallel callers (SpecConc, Spec).                        *)
(***************************************************************************)
registeredHashes == {h \in Hashes : metaFiles[h].exists}

\* C3: in every state reached by interleaved AddDevice and DeleteDevice
\* calls in which no driver call and no file operation has failed, no two
\* registered devices have the same DeviceID, and the ID of every
\* registered device is marked used in the bitmap.
C3_DeviceIDUnique ==
    faulty = MaxFaults =>
        /\ \A g, h \in registeredHashes :
              g # h => metaFiles[g].DeviceID # metaFiles[h].DeviceID
        /\ \A h \in registeredHashes :
              ~isDeviceIDFree(deviceIDMap, metaFiles[h].DeviceID)

\* the thread t takes the lock of a device in this step
acquiresDeviceLock(t) == \E o \in ObjIds : heap[o].lock # t /\ heap'[o].lock = t

\* C10: no thread takes or waits for the lock of a device while it holds
\* the pool lock, the retry loops of removeDevice and cancelDeferredRemoval
\* included.
C10_LockOrder ==
    [][ \A t \in Threads :
          /\ thr[t].pc \in {"lockdev", "sd_lockdev"} => poolLock # t
          /\ acquiresDeviceLock(t) => (poolLock # t /\ poolLock' # t)
      ]_vars

\* a thread has the pool lock again after a busy pass of removeDevice
\* while the other waits for the lock of the same device
C10_Witness ==
    \E t, u \in Threads :
        /\ thr[t].pc = "rm_try"
        /\ thr[t].i > 0
        /\ poolLock = t
        /\ heap[thr[t].info].lock = t
        /\ thr[u].pc = "lockdev"
        /\ thr[u].info = thr[t].info

(***************************************************************************)
(* Properties of MountDevice and UnmountDevice (SpecMount).                *)
(***************************************************************************)
\* the thread t takes the step of its call at pc
stepAt(t, op, pc) == thr[t].op = op /\ thr[t].pc = pc /\ thr'[t] # thr[t]

\* the step of t ends the body of its call: the deferred unlocks are next
bodyEnds(t, op) == thr[t].op = op /\ thr[t].pc # "unlockpool" /\ thr'[t].pc = "unlockpool"

mountCountOf(t) == heap[thr[t].info].mountCount
mountPathOf(t)  == heap[thr[t].info].mountPath

\* C6: MountDevice(h, p) of a device mounted n >= 1 times at p makes the
\* count n+1 without an activation and without a mount syscall; with
\* another path it returns an error and leaves count and path alone; a
\* MountDevice of a device with count 0 that succeeds leaves count 1 and
\* the requested path after exactly one mount syscall.
C6_MountRefCount ==
    [][ \A t \in Threads :
          /\ (stepAt(t, "MountDevice", "m_check") /\ mountCountOf(t) >= 1
                /\ thr[t].path = mountPathOf(t)) =>
                /\ heap'[thr[t].info].mountCount = mountCountOf(t) + 1
                /\ heap'[thr[t].info].mountPath = mountPathOf(t)
                /\ thr'[t].pc = "unlockpool"
                /\ thr'[t].err = ""
                /\ thr'[t].nact = 0
                /\ thr'[t].nmount = 0
                /\ UNCHANGED drvVars
          /\ (stepAt(t, "MountDevice", "m_check") /\ mountCountOf(t) >= 1
                /\ thr[t].path # mountPathOf(t)) =>
                /\ thr'[t].pc = "unlockpool"
                /\ thr'[t].err # ""
                /\ UNCHANGED <<heap, drvVars>>
          /\ (bodyEnds(t, "MountDevice") /\ thr'[t].err = "" /\ mountCountOf(t) = 0) =>
                /\ thr[t].pc = "m_mount"
                /\ heap'[thr[t].info].mountCount = 1
                /\ heap'[thr[t].info].mountPath = thr[t].path
                /\ thr'[t].nmount = 1
                /\ kmount'[nameOf(t)] = kmount[nameOf(t)] + 1
      ]_vars

\* a second MountDevice of the same path is through
C6_Witness ==
    \E t \in Threads :
        /\ thr[t].op = "MountDevice"
        /\ thr[t].pc = "unlockpool"
        /\ thr[t].err = ""
        /\ thr[t].nmount = 0
        /\ thr[t].nact = 0
        /\ mountCountOf(t) = 2
        /\ mountPathOf(t) = thr[t].path
        /\ kmount[nameOf(t)] = 1

\* what UnmountDevice does up to its last call but one, and after the
\* last: C7 and its statement in the claim share it
unmountCounts(t) ==
    /\ (stepAt(t, "UnmountDevice", "u_check") /\ mountCountOf(t) >= 2) =>
          /\ heap'[thr[t].info].mountCount = mountCountOf(t) - 1
          /\ thr'[t].pc = "unlockpool"
          /\ thr'[t].err = ""
          /\ thr'[t].numount = 0
          /\ thr'[t].ndeact = 0
          /\ UNCHANGED drvVars
    /\ (stepAt(t, "UnmountDevice", "u_check") /\ mountCountOf(t) = 1) =>
          /\ heap'[thr[t].info].mountCount = 0
          /\ thr'[t].pc = "u_unmount"
    /\ (stepAt(t, "UnmountDevice", "u_check") /\ mountCountOf(t) = 0) =>
          /\ thr'[t].pc = "unlockpool"
          /\ thr'[t].err = "not mounted"
    /\ stepAt(t, "UnmountDevice", "de_info") => thr[t].numount = 1

\* the call that brought the count to 0 ends
lastUnmountEnds(t) == bodyEnds(t, "UnmountDevice") /\ thr[t].pc # "u_check"

\* C7 as stated: the n-th call issues exactly one unmount syscall
\* followed by one deactivation.
C7_AsStated ==
    [][ \A t \in Threads :
          /\ unmountCounts(t)
          /\ lastUnmountEnds(t) => (thr'[t].numount = 1 /\ thr'[t].ndeact = 1)
      ]_vars

\* C7: the first n-1 UnmountDevice calls of a device with count n only
\* decrement the count, with no unmount syscall and no deactivation; the
\* n-th issues exactly one unmount syscall and, when that succeeds, one
\* deactivation after it, and none when it fails; with count 0 the call
\* returns the not-mounted error.
C7_UnmountRefCount ==
    [][ \A t \in Threads :
          /\ unmountCounts(t)
          /\ lastUnmountEnds(t) =>
                /\ thr'[t].numount = 1
                /\ IF thr[t].pc = "u_unmount"
                   THEN thr'[t].ndeact = 0 /\ thr'[t].err = "unmount"
                   ELSE thr'[t].ndeact = 1
      ]_vars

\* the second of two UnmountDevice calls after two MountDevice calls is
\* through: one unmount syscall, one deactivation
C7_Witness ==
    \E t \in Threads :
        /\ thr[t].op = "UnmountDevice"
        /\ thr[t].pc = "unlockpool"
        /\ thr[t].err = ""
        /\ thr[t].numount = 1
        /\ thr[t].ndeact = 1
        /\ mountCountOf(t) = 0
        /\ kmount[nameOf(t)] = 0
        /\ hist.calls = MaxMountCalls - 4

\* C8: no mountCount is ever negative, and an UnmountDevice of a device
\* with count 0 returns an error and changes neither the count, the path
\* nor the state of the driver and the kernel.
C8_MountCountNotNegative ==
    [][ /\ \A o \in ObjIds : heap[o].mountCount >= 0 /\ heap'[o].mountCount >= 0
        /\ \A t \in Threads :
              (stepAt(t, "UnmountDevice", "u_check") /\ mountCountOf(t) = 0) =>
                  /\ thr'[t].pc = "unlockpool"
                  /\ thr'[t].err # ""
                  /\ thr'[t].numount = 0
                  /\ thr'[t].ndeact = 0
                  /\ UNCHANGED <<heap, drvVars>>
      ]_vars

\* UnmountDevice was refused for a device the kernel still has mounted: an
\* unmount syscall failed before, after the count went to 0
C8_Witness ==
    \E t \in Threads :
        /\ thr[t].op = "UnmountDevice"
        /\ thr[t].err = "not mounted"
        /\ mountCountOf(t) = 0
        /\ mountPathOf(t) # ""
        /\ kmount[nameOf(t)] > 0

(***************************************************************************)
(* HasDevice(hash) and List(): the pool lock, then devicesLock inside it.  *)
(***************************************************************************)
\* the operation is entered; it looks no device up before it locks
PoolOnlyCall(t, op, hash) ==
    /\ at(t, "idle")
    /\ setThr(t, [Idle EXCEPT !.op = op, !.hash = hash, !.pc = "p_lockpool"])
    /\ hist.calls > 0
    /\ hist' = [NoHist EXCEPT !.calls = hist.calls - 1]
    /\ UNCHANGED <<memVars, diskVars, drvVars, boot, faulty, last>>

\* a List that asks for the pool lock again while it holds it
afterPoolLockAgain(op) == IF op = "List" THEN "p_lockpool" ELSE "p_lockdevices"

\* where HasDevice and List go on with the pool lock: to devicesLock;
\* Status goes on to poolStatus
afterPoolLock(op) == IF op = "Status" THEN "st_status" ELSE "p_lockdevices"

\* devices.Lock() at the head of HasDevice and List
PoolOnlyLock(t) ==
    /\ at(t, "p_lockpool")
    /\ poolLock = 0
    /\ poolLock' = t
    /\ goto(t, afterPoolLock(me(t).op))
    /\ UNCHANGED <<deviceIDMap, NextDeviceID, TransactionID, transaction, Devices,
                   heap, diskVars, drvVars, keep>>

\* devices.devicesLock.Lock(): in lookupDevice for HasDevice, in List itself
DevicesLock(t) ==
    /\ at(t, "p_lockdevices")
    /\ devicesLockFree
    /\ goto(t, "p_indevices")
    /\ UNCHANGED <<memVars, diskVars, drvVars, keep>>

\* under devicesLock: lookupDevice(hash) for HasDevice, the keys of the
\* index for List; then devices.devicesLock.Unlock()
DevicesUnlock(t) ==
    /\ at(t, "p_indevices")
    /\ IF me(t).op = "HasDevice"
       THEN LET r == lookupDevice(Devices, heap, metaFiles, me(t).hash)
            IN  /\ Devices' = r.devs
                /\ heap' = r.heap
                /\ setThr(t, [me(t) EXCEPT !.pc = "p_unlockpool", !.info = r.info,
                                           !.err = IF r.info = 0 THEN "false" ELSE ""])
       ELSE /\ goto(t, "p_unlockpool")
            /\ UNCHANGED <<Devices, heap>>
    /\ UNCHANGED <<deviceIDMap, NextDeviceID, TransactionID, transaction, poolLock,
                   diskVars, drvVars, keep>>

\* the deferred devices.Unlock() of HasDevice and List
PoolOnlyUnlock(t) ==
    /\ at(t, "p_unlockpool")
    /\ poolLock' = 0
    /\ goto(t, "ret")
    /\ UNCHANGED <<deviceIDMap, NextDeviceID, TransactionID, transaction, Devices,
                   heap, diskVars, drvVars, keep>>

HasDevice(t) ==
    \/ \E h \in OpHashes : PoolOnlyCall(t, "HasDevice", h)
    \/ PoolOnlyLock(t)
    \/ DevicesLock(t)
    \/ DevicesUnlock(t)
    \/ PoolOnlyUnlock(t)

List(t) == PoolOnlyCall(t, "List", "")

(***************************************************************************)
(* Every operation that takes a lock, in parallel, each thread scheduled   *)
(* fairly (SpecLive).                                                      *)
(***************************************************************************)
MaxLiveCalls == 2

\* the layer "a" was mounted and unmounted before and something still
\* uses its device: the device is activated and its removal is scheduled
\* (deferred removal is on, as initDevmapper sets it when it is supported)
InitLive ==
    /\ InitMem
    /\ InitDisk
    /\ poolDevs = {1, 2} \cup OtherDeviceIDs
    /\ poolTxn = 2
    /\ deferredRemove = TRUE
    /\ active = {"a"}
    /\ deferred = {"a"}
    /\ kmount = [h \in Hashes |-> 0]
    /\ boot = "up"
    /\ thr = [t \in Threads |-> Idle]
    /\ faulty = MaxFaults
    /\ last = NoCall
    /\ hist = [NoHist EXCEPT !.calls = MaxLiveCalls]

\* a step of the thread t
OpStep(t) ==
    \/ AddDevice(t)
    \/ DeleteDevice(t)
    \/ MountDevice(t)
    \/ UnmountDevice(t)
    \/ GetDeviceStatus(t)
    \/ HasDevice(t)
    \/ HasActivatedDevice(t)
    \/ List(t)
    \/ Shutdown(t)
    \/ Locks(t)
    \/ CancelDeferredCheck(t)
    \/ CancelDeferred(t)
    \/ ActivateIfNeeded(t)
    \/ Remove(t)
    \/ Deactivate(t)

NextLive == \E t \in Threads : OpStep(t)

\* the scheduler runs some thread as long as one can take a step
SpecLive == InitLive /\ [][NextLive]_vars /\ WF_vars(NextLive)

\* the thread t is inside a call
unfinished(t) == thr[t].pc # "idle"

\* some thread that is inside a call can take a step
someoneRuns == ENABLED (\E t \in Threads : unfinished(t) /\ OpStep(t))

\* C11: in no reachable state is every thread that is inside a call
\* blocked on a lock (device lock, pool lock or devicesLock), and under
\* fair scheduling every call returns: whatever calls are under way, a
\* state follows in which no thread is inside a call.
C11_DeadlockFreedom ==
    /\ []((\E t \in Threads : unfinished(t)) => someoneRuns)
    /\ []<>(\A t \in Threads : ~unfinished(t))

\* one thread holds the pool lock and devicesLock in HasDevice or List
\* while the other holds a device lock and waits for the pool lock
C11_Witness ==
    \E t, u \in Threads :
        /\ thr[t].pc = "p_indevices"
        /\ poolLock = t
        /\ thr[u].pc = "lockpool"
        /\ heap[thr[u].info].lock = u

(***************************************************************************)
(* Status() and ResizePool(size): the calls into the driver and the pool   *)
(* lock.                                                                   *)
(***************************************************************************)
\* totalSizeInSectors, ... := devices.poolStatus(): GetStatus of the pool,
\* the pool lock held; Status returns a status whether it works or not
StatusPool(t) ==
    /\ at(t, "st_status")
    /\ goto(t, "p_unlockpool")
    /\ UNCHANGED <<memVars, diskVars, drvVars, keep>>

Status(t) ==
    \/ PoolOnlyCall(t, "Status", "")
    \/ PoolOnlyLock(t)
    \/ StatusPool(t)
    \/ PoolOnlyUnlock(t)

\* the calls ResizePool makes into the driver, in their order:
\* LoopbackSetCapacity, SuspendDevice, ReloadPool, ResumeDevice
ResizeCalls == 4

\* ResizePool(size) is entered, no lock taken: the data file is opened and
\* its size read; a size below it ends the call with "Can't shrink file"
ResizeCall(t) ==
    /\ at(t, "idle")
    /\ \E size \in 1..MaxDataSize :
         IF backing.fileSize > size
         THEN setThr(t, [Idle EXCEPT !.op = "ResizePool", !.size = size,
                                     !.pc = "ret", !.err = "shrink"])
         ELSE setThr(t, [Idle EXCEPT !.op = "ResizePool", !.size = size,
                                     !.pc = "rz_truncate"])
    /\ hist.calls > 0
    /\ hist' = [NoHist EXCEPT !.calls = hist.calls - 1]
    /\ UNCHANGED <<memVars, diskVars, drvVars, boot, faulty, last>>

\* the loop devices of the two files are found, then datafile.Truncate(size)
ResizeTruncate(t) ==
    /\ at(t, "rz_truncate")
    /\ \E res \in Results :
         /\ spend(res)
         /\ IF res = "ok"
            THEN /\ backing' = [backing EXCEPT !.fileSize = me(t).size]
                 /\ setThr(t, [me(t) EXCEPT !.pc = "rz_call", !.stage = 1])
            ELSE /\ backing' = backing
                 /\ setThr(t, [me(t) EXCEPT !.pc = "ret", !.err = "grow"])
    /\ UNCHANGED <<memVars, metaFiles, transFile, savedNextDeviceID, drvVars, keepf>>

\* the thread enters the driver call number `stage`
ResizeEnter(t) ==
    /\ at(t, "rz_call")
    /\ goto(t, "rz_in")
    /\ UNCHANGED <<memVars, diskVars, drvVars, keep>>

\* what the driver call number `stage` does when it works
resized(b, stage) ==
    CASE stage = 1 -> [b EXCEPT !.loopSize = b.fileSize]
      [] stage = 2 -> [b EXCEPT !.suspended = TRUE]
      [] stage = 3 -> [b EXCEPT !.poolSize = b.loopSize]
      [] OTHER     -> [b EXCEPT !.suspended = FALSE]

\* the driver call returns: an error ends ResizePool at once, the last
\* call that works ends it too
ResizeLeave(t) ==
    /\ at(t, "rz_in")
    /\ \E res \in Results :
         /\ spend(res)
         /\ IF res # "ok"
            THEN /\ backing' = backing
                 /\ setThr(t, [me(t) EXCEPT !.pc = "ret", !.err = "resize"])
            ELSE /\ backing' = resized(backing, me(t).stage)
                 /\ IF me(t).stage = ResizeCalls
                    THEN goto(t, "ret")
                    ELSE setThr(t, [me(t) EXCEPT !.pc = "rz_call",
                                                 !.stage = me(t).stage + 1])
    /\ UNCHANGED <<memVars, metaFiles, transFile, savedNextDeviceID, drvVars, keepf>>

ResizePool(t) ==
    \/ ResizeCall(t)
    \/ ResizeTruncate(t)
    \/ ResizeEnter(t)
    \/ ResizeLeave(t)

\* callers of AddDevice, GetDeviceStatus, Status and ResizePool in parallel
NextDriver ==
    \E t \in Threads :
        \/ AddDevice(t)
        \/ GetDeviceStatus(t)
        \/ Status(t)
        \/ ResizePool(t)
        \/ Locks(t)
        \/ CancelDeferredCheck(t)
        \/ ActivateIfNeeded(t)

SpecDriver == InitCrash /\ [][NextDriver]_vars

\* the thread is inside a call into the driver that takes time
insideDriver(t) == thr[t].pc = "rz_in"

\* the positions whose step is a call into the driver made in one step
DriverPcs == {"a_create", "a_close", "a_undo", "d_delete", "d_close",
              "act_info", "cd_try", "rm_try", "h_info", "s_status",
              "st_status", "sd_pool"}

\* the thread makes a call into the driver in this step
driverStep(t) == thr[t].pc \in DriverPcs /\ thr'[t] # thr[t]

\* the thread enters a call into the driver in this step
entersDriver(t) == thr[t].pc = "rz_call" /\ thr'[t].pc = "rz_in"

\* C12: no two threads are inside a call into the driver at the same time
\* (no thread makes or enters a driver call while another thread is inside
\* one), and the bitmap and NextDeviceID change only in a step of the
\* thread that holds the pool lock; for AddDevice, GetDeviceStatus, Status
\* and ResizePool.
C12_DriverSerialization ==
    [][/\ \A t \in Threads :
            (driverStep(t) \/ entersDriver(t)) =>
                \A u \in Threads \ {t} : ~insideDriver(u)
       /\ (deviceIDMap' # deviceIDMap \/ NextDeviceID' # NextDeviceID) =>
            (poolLock \in Threads /\ thr'[poolLock] # thr[poolLock])]_vars

\* AddDevice is about to issue CreateSnapDevice with the pool lock while
\* another thread is inside the SuspendDevice of ResizePool
C12_Witness ==
    \E t, u \in Threads :
        /\ thr[t].op = "AddDevice" /\ thr[t].pc = "a_create"
        /\ poolLock = t
        /\ thr[u].pc = "rz_in" /\ thr[u].stage = 2

(***************************************************************************)
(* The lock of a device and the operations on its hash.                    *)
(***************************************************************************)
\* the operations that take the lock of the device they look up
DeviceOps == {"AddDevice", "DeleteDevice", "MountDevice", "UnmountDevice",
              "GetDeviceStatus"}

\* the thread is past info.lock.Lock() of an operation on the hash h (the
\* base hash, for AddDevice) and has not released the lock yet
pastDeviceLock(t, h) ==
    /\ thr[t].op \in DeviceOps
    /\ thr[t].base = h
    /\ thr[t].info # 0
    /\ heap[thr[t].info].lock = t

\* the positions of DeleteDevice whose step calls the driver or changes the
\* metadata (the index, the files, the transaction, the bitmap)
DeleteWorkPcs == {"cd_try", "rm_try", "d_open", "d_delete", "d_unreg",
                  "d_unregrm", "d_close"}

\* DeleteDevice(h) takes a step that calls the driver or changes metadata
deleteWorks(t, h) ==
    /\ thr[t].op = "DeleteDevice"
    /\ thr[t].hash = h
    /\ thr[t].pc \in DeleteWorkPcs
    /\ thr'[t] # thr[t]

\* C13: for any hash h, no two of DeleteDevice(h), MountDevice(h),
\* UnmountDevice(h), GetDeviceStatus(h) and AddDevice(_, h) are past their
\* acquisition of the device lock at the same time, and DeleteDevice(h)
\* makes no driver call and no metadata change while another thread holds
\* the lock of a device of hash h.
C13_PerDeviceExclusion ==
    /\ [](\A h \in Hashes : \A t, u \in Threads :
            (pastDeviceLock(t, h) /\ pastDeviceLock(u, h)) => t = u)
    /\ [][\A h \in Hashes : \A t, u \in Threads :
            (deleteWorks(t, h) /\ pastDeviceLock(u, h)) => t = u]_vars

\* two operations wait for the lock of the same device, one of them past it
C13_Witness ==
    \E h \in Hashes : \E t, u \in Threads :
        /\ pastDeviceLock(t, h)
        /\ thr[u].base = h /\ thr[u].pc = "lockdev"
        /\ thr[u].info = thr[t].info

(***************************************************************************)
(* The transaction record and the driver calls that create or delete a     *)
(* thin device.                                                            *)
(***************************************************************************)
\* the IDs that are free in the bitmap after initialization
SpareIDs == DeviceIDs \ ({1, 2} \cup OtherDeviceIDs)

\* the pool after a cleanup whose DeleteDevice failed: createRegisterSnapDevice
\* and rollbackTransaction drop that error and free the ID, so the pool
\* holds thin devices whose IDs are free in the bitmap
InitRetry ==
    /\ InitMem
    /\ InitDisk
    /\ poolDevs \in {{1, 2} \cup OtherDeviceIDs \cup L : L \in SUBSET SpareIDs \ {{}}}
    /\ poolTxn = 2
    /\ active = {}
    /\ deferred = {}
    /\ kmount = [h \in Hashes |-> 0]
    /\ deferredRemove = FALSE
    /\ boot = "up"
    /\ thr = [t \in Threads |-> Idle]
    /\ faulty = MaxFaults
    /\ last = NoCall
    /\ hist = [NoHist EXCEPT !.calls = MaxCalls]

\* callers of AddDevice in parallel, the retry of a collision included
NextRetry ==
    \E t \in Threads :
        \/ AddDevice(t)
        \/ AddRealloc(t)
        \/ Locks(t)

SpecRetry == InitRetry /\ [][NextRetry]_vars

\* the record on disk names the device ID d, one transaction ahead of the
\* pool
recordNames(d) ==
    /\ transFile.exists
    /\ transFile.DeviceID = d
    /\ transFile.OpenTransactionID = TransactionID + 1

\* the thread issues CreateSnapDevice for the ID it holds
issuesCreate(t) == thr[t].pc = "a_create" /\ thr'[t] # thr[t]

\* the thread issues the DeleteDevice of the cleanup of createRegisterSnapDevice
issuesUndo(t) == thr[t].pc = "a_undo" /\ thr'[t] # thr[t]

\* the thread issues the DeleteDevice of deleteDevice
issuesDelete(t) == thr[t].pc = "d_delete" /\ thr'[t] # thr[t]

\* C14: every CreateSnapDevice and DeleteDevice call of
\* createRegisterSnapDevice and deleteDevice for a thin device d is issued
\* in a state whose transaction record on disk names d with
\* OpenTransactionID = TransactionID + 1, each retry with a re-allocated ID
\* included, also when the write of the refreshed record failed.
C14_WriteAhead ==
    [][\A t \in Threads :
         /\ issuesCreate(t) => recordNames(thr[t].deviceID)
         /\ issuesUndo(t) => recordNames(thr[t].deviceID)
         /\ issuesDelete(t) => recordNames(heap[thr[t].info].DeviceID)]_vars

\* a retry of CreateSnapDevice with a re-allocated ID is about to be issued
\* and the record on disk names the new ID
C14_Witness ==
    \E t \in Threads :
        /\ thr[t].pc = "a_create"
        /\ thr[t].stage = 1
        /\ recordNames(thr[t].deviceID)

(***************************************************************************)
(* The transaction ID in memory and in the pool.                           *)
(***************************************************************************)
\* the step in which the body of AddDevice or DeleteDevice ends with no
\* error: what is left are the deferred unlocks
finishesOk(t) ==
    /\ thr[t].op \in {"AddDevice", "DeleteDevice"}
    /\ thr[t].pc \notin {"unlockpool", "unlockdev", "ret"}
    /\ thr'[t].pc = "unlockpool"
    /\ thr'[t].err = ""

\* C15: the TransactionID in memory never decreases and always equals the
\* transaction ID of the pool; the step that ends AddDevice or DeleteDevice
\* with success adds exactly 1 to it and no other step of any call changes
\* it, so a call that returns an error leaves it alone (a call that ended
\* with success keeps its result while it unlocks).
C15_TransactionIDMonotone ==
    /\ [](boot = "up" => TransactionID = poolTxn)
    /\ [][/\ TransactionID' >= TransactionID
          /\ \A t \in Threads :
                /\ finishesOk(t) => TransactionID' = TransactionID + 1
                /\ (thr'[t] # thr[t] /\ ~finishesOk(t)) => TransactionID' = TransactionID
                /\ thr[t].pc \in {"unlockpool", "unlockdev"} => thr'[t].err = thr[t].err]_vars

\* one call has returned with success and another with an error from
\* closeTransaction: the ID moved by one
C15_Witness ==
    \E t, u \in Threads :
        /\ thr[t].op \in {"AddDevice", "DeleteDevice"}
        /\ thr[t].pc = "ret" /\ thr[t].err = "close transaction"
        /\ thr[u].op \in {"AddDevice", "DeleteDevice"}
        /\ thr[u].pc = "ret" /\ thr[u].err = ""
        /\ TransactionID = 3 /\ poolTxn = 3

(***************************************************************************)
(* The open transaction and the pool lock.                                 *)
(***************************************************************************)
\* the positions between the openTransaction of createRegisterSnapDevice or
\* deleteDevice and its closeTransaction or the end of its cleanup
TransactionPcs == {"a_create", "a_realloc", "a_register", "a_save", "a_close",
                   "a_unreg", "a_unregrm", "a_undo",
                   "d_delete", "d_unreg", "d_unregrm", "d_close"}

inTransaction(t) == thr[t].pc \in TransactionPcs

\* the thread calls openTransaction, refreshTransaction or closeTransaction
transactionStep(t) ==
    /\ thr[t].pc \in {"a_open", "d_open", "a_realloc", "a_close", "d_close"}
    /\ thr'[t] # thr[t]

\* C16: from the openTransaction of an operation to its closeTransaction or
\* its error return the operation holds the pool lock without a break, and
\* no other operation calls openTransaction, refreshTransaction or
\* closeTransaction.
C16_SingleOpenTransaction ==
    /\ [](\A t \in Threads : inTransaction(t) => poolLock = t)
    /\ [][\A t \in Threads :
            inTransaction(t) =>
                /\ poolLock' = t
                /\ \A u \in Threads \ {t} : ~transactionStep(u)]_vars

\* a transaction is open while the other thread, which gave the pool lock
\* up in the retry loop of removeDevice, waits to get it back
C16_Witness ==
    \E t, u \in Threads :
        /\ inTransaction(t)
        /\ thr[u].op = "DeleteDevice"
        /\ thr[u].pc = "rm_relock"

(***************************************************************************)
(* The transaction record after a successful operation.                    *)
(***************************************************************************)
\* the body of AddDevice or DeleteDevice has ended with no error and the
\* call still holds the pool lock
endedOk(t) ==
    /\ thr[t].op \in {"AddDevice", "DeleteDevice"}
    /\ thr[t].pc = "unlockpool"
    /\ thr[t].err = ""

inIndex(h) == Devices[h] # 0

\* C18: in every state of the running daemon, the states inside
\* registerDevice included, a hash is in the in-memory index only if its
\* metadata file exists.
C18_WriteThenRegister ==
    boot = "up" => \A h \in Hashes : inIndex(h) => metaFiles[h].exists

\* another operation has looked a hash up and holds the devInfo that
\* registerDevice put in the index, the metadata file not written yet
C18_Witness ==
    \E t, u \in Threads : \E h \in Hashes :
        /\ thr[t].op = "AddDevice" /\ thr[t].hash = h /\ thr[t].pc = "a_save"
        /\ inIndex(h) /\ ~metaFiles[h].exists
        /\ u # t /\ thr[u].base = h /\ thr[u].info = Devices[h]

\* the hash that the unregisterDevice of the thread works on
unregHash(t) == IF thr[t].op = "AddDevice" THEN thr[t].hash
                ELSE heap[thr[t].info].Hash

\* unregisterDevice drops the hash from the index in this step
dropsIndex(t) == thr[t].pc \in {"a_unreg", "d_unreg"} /\ thr'[t] # thr[t]

\* the removeMetadata of unregisterDevice fails in this step
removeFails(t) ==
    /\ thr[t].pc \in {"a_unregrm", "d_unregrm"}
    /\ thr'[t] # thr[t]
    /\ metaFiles[unregHash(t)].exists
    /\ metaFiles'[unregHash(t)].exists

\* C19: unregisterDevice drops the hash from the index only after the
\* metadata file is removed, and when the removal of the file fails the
\* hash is still in the index.
C19_UnlinkThenDrop ==
    [][\A t \in Threads :
         /\ dropsIndex(t) => ~metaFiles[unregHash(t)].exists
         /\ removeFails(t) => inIndex(unregHash(t))']_vars

\* DeleteDevice has returned the error of removeMetadata: the file of its
\* hash is there and the hash is not in the index
C19_Witness ==
    \E t \in Threads :
        /\ thr[t].op = "DeleteDevice"
        /\ thr[t].pc = "ret" /\ thr[t].err = "remove metadata"
        /\ metaFiles[thr[t].base].exists
        /\ ~inIndex(thr[t].base)

(***************************************************************************)
(* AddDevice that returns an error.                                        *)
(***************************************************************************)
\* the errors of createRegisterSnapDevice behind the allocation of an ID
\* that leave no device of this call to clean up, and those behind
\* CreateSnapDevice
EarlyErrors == {"open transaction", "create"}
LateErrors == {"register", "close transaction"}

\* AddDevice has ended with an error behind the allocation of an ID and
\* still holds the pool lock
addFailed(t) ==
    /\ thr[t].op = "AddDevice"
    /\ thr[t].pc = "unlockpool"
    /\ \/ thr[t].err \in EarlyErrors \cup LateErrors
       \/ thr[t].err = "no free id" /\ thr[t].stage = 1

\* C20: when AddDevice(hash, _) returns an error behind the allocation of
\* an ID, the hash is not in the index, its metadata file does not exist,
\* the thin device this call created is not in the pool, and the ID the
\* call holds is free in the bitmap unless the pool holds a device with it.
C20_AddFailureCleanup ==
    \A t \in Threads :
        addFailed(t) =>
            /\ ~inIndex(thr[t].hash)
            /\ ~metaFiles[thr[t].hash].exists
            /\ thr[t].err \in LateErrors => thr[t].deviceID \notin poolDevs
            /\ thr[t].deviceID \notin poolDevs =>
                  isDeviceIDFree(deviceIDMap, thr[t].deviceID)

\* AddDevice has ended with the error of closeTransaction and its cleanup
\* has worked
C20_Witness ==
    \E t \in Threads :
        /\ addFailed(t)
        /\ thr[t].err = "close transaction"
        /\ ~inIndex(thr[t].hash)
        /\ ~metaFiles[thr[t].hash].exists
        /\ thr[t].deviceID \notin poolDevs
        /\ isDeviceIDFree(deviceIDMap, thr[t].deviceID)

(***************************************************************************)
(* The transaction of an operation that fails.                             *)
(***************************************************************************)
\* the errors of the driver calls behind openTransaction: CreateSnapDevice,
\* DeleteDevice and SetTransactionId
DriverErrors == {"create", "delete", "close transaction"}

\* AddDevice or DeleteDevice has ended with the error of a driver call
\* behind its openTransaction and still holds the pool lock
driverFailed(t) ==
    /\ thr[t].op \in {"AddDevice", "DeleteDevice"}
    /\ thr[t].pc = "unlockpool"
    /\ thr[t].err \in DriverErrors

\* C21: when AddDevice or DeleteDevice returns the error of a driver call
\* that failed behind openTransaction, no transaction record remains on
\* disk and OpenTransactionID equals TransactionID.
C21_RollbackOnDriverError ==
    \A t \in Threads :
        driverFailed(t) =>
            /\ ~transFile.exists
            /\ transaction.OpenTransactionID = TransactionID

\* DeleteDevice has ended with the error of the driver's DeleteDevice
C21_Witness ==
    \E t \in Threads :
        /\ driverFailed(t)
        /\ thr[t].op = "DeleteDevice"
        /\ thr[t].err = "delete"
        /\ transFile.DeviceIDHash = thr[t].base

(***************************************************************************)
(* AddDevice that finds no free device ID.                                 *)
(***************************************************************************)
\* the state of the pool that the documentation lists
poolState == <<deviceIDMap, NextDeviceID, Devices, metaFiles, transFile,
               transaction.OpenTransactionID, TransactionID>>

\* the same without the cursor and the index
poolStateKept == <<deviceIDMap, metaFiles, transFile,
                   transaction.OpenTransactionID, TransactionID>>

\* getNextFreeDeviceID at the head of createRegisterSnapDevice finds no
\* free ID in this step
exhaustStep(t) ==
    /\ thr[t].op = "AddDevice"
    /\ thr[t].pc = "a_alloc"
    /\ thr'[t].err = "no free id"

\* a step of AddDevice outside createRegisterSnapDevice: the lookup of the
\* base, the locks, the lookup of the hash, the unlocks, the return
addOuterStep(t) ==
    /\ thr'[t] # thr[t]
    /\ \/ thr[t].pc = "idle" /\ thr'[t].op = "AddDevice"
       \/ /\ thr[t].op = "AddDevice"
          /\ thr[t].pc \in {"lockdev", "lockpool", "a_exists", "unlockpool",
                            "unlockdev", "ret"}

\* the lookup of the base hash at the head of AddDevice loads its devInfo
\* from the metadata file into the index
loadsBase(t) ==
    /\ thr[t].pc = "idle"
    /\ Devices[thr'[t].base] = 0
    /\ metaFiles[thr'[t].base].exists
    /\ Devices'[thr'[t].base] # 0
    /\ \A h \in Hashes \ {thr'[t].base} : Devices'[h] = Devices[h]

deletedID(t) == heap[thr[t].info].DeviceID

\* deleteDevice has ended with an error of one of its steps and still
\* holds the pool lock
deleteFailed(t) ==
    /\ thr[t].op = "DeleteDevice"
    /\ thr[t].pc = "unlockpool"
    /\ thr[t].err \in {"open transaction", "delete", "remove metadata",
                       "close transaction"}

\* C23: after DeleteDevice(hash) has ended with success the hash is not in
\* the index, its metadata file does not exist, the pool holds no device
\* with its ID and the bit of the ID is free; after it has ended with the
\* error of one of its steps the bit is free exactly when the metadata file
\* has been removed (the bit is freed before the transaction is closed).
C23_DeleteResult ==
    \A t \in Threads :
        /\ (endedOk(t) /\ thr[t].op = "DeleteDevice") =>
              /\ ~inIndex(thr[t].base)
              /\ ~metaFiles[thr[t].base].exists
              /\ deletedID(t) \notin poolDevs
              /\ isDeviceIDFree(deviceIDMap, deletedID(t))
        /\ deleteFailed(t) =>
              (isDeviceIDFree(deviceIDMap, deletedID(t))
                  <=> ~metaFiles[thr[t].base].exists)

\* DeleteDevice has ended with success and has left nothing of the layer
C23_Witness ==
    \E t \in Threads :
        /\ endedOk(t) /\ thr[t].op = "DeleteDevice"
        /\ ~inIndex(thr[t].base)
        /\ ~metaFiles[thr[t].base].exists
        /\ deletedID(t) \notin poolDevs
        /\ isDeviceIDFree(deviceIDMap, deletedID(t))

(***************************************************************************)
(* ResizePool and the size of the data file.                               *)
(***************************************************************************)
\* ResizePool(size) is called with a size below the size of the data file
shrinkCall(t) ==
    /\ thr[t].pc = "idle"
    /\ thr'[t].op = "ResizePool"
    /\ thr'[t].size < backing.fileSize

\* C24: ResizePool(size) with size below the size of the data file returns
\* an error at once, with no truncation and no call to the driver, the file,
\* the loop device and the pool as they were; and no step of any ResizePool
\* makes the data file smaller.
C24_NeverShrinks ==
    [][/\ \A t \in Threads :
            shrinkCall(t) =>
                /\ thr'[t].pc = "ret"
                /\ thr'[t].err = "shrink"
                /\ backing' = backing
       /\ backing'.fileSize >= backing.fileSize]_vars

\* a ResizePool that asked for less than the file holds was turned away
\* after another one had grown the file
C24_Witness ==
    \E t \in Threads :
        /\ thr[t].op = "ResizePool"
        /\ thr[t].pc = "ret"
        /\ thr[t].err = "shrink"
        /\ backing.fileSize = MaxDataSize
        /\ backing.poolSize = MaxDataSize

\* ResizePool is inside ReloadPool
inReload(t) == thr[t].pc = "rz_in" /\ thr[t].stage = 3

\* ResizePool has ended behind a SuspendDevice that worked
returnsSuspended(t) ==
    /\ thr[t].op = "ResizePool"
    /\ thr[t].pc = "ret"
    /\ thr[t].stage >= 3

\* C25: ReloadPool is issued and runs only while the pool is suspended, and
\* whenever ResizePool returns behind a SuspendDevice that worked, with
\* success or with an error, the pool has been resumed.
C25_SuspendReloadResume ==
    \A t \in Threads :
        /\ inReload(t) => backing.suspended
        /\ returnsSuspended(t) => ~backing.suspended

\* ResizePool has ended with success: the pool was suspended, reloaded with
\* the new size and resumed
C25_Witness ==
    \E t \in Threads :
        /\ returnsSuspended(t)
        /\ thr[t].err = ""
        /\ thr[t].size = MaxDataSize
        /\ backing.poolSize = MaxDataSize
        /\ ~backing.suspended

(***************************************************************************)
(* Shutdown next to callers of MountDevice and UnmountDevice, on a pool    *)
(* set up with or without the dm.thinpooldev option.                       *)
(***************************************************************************)
InitShutdown ==
    /\ InitMem
    /\ metaFiles = InitFiles
    /\ transFile = [exists |-> TRUE, OpenTransactionID |-> 2, DeviceIDHash |-> "a",
                    DeviceID |-> 2]
    /\ savedNextDeviceID = 1
    /\ \E thinPoolDevice \in BOOLEAN : backing = InitBacking(thinPoolDevice)
    /\ InitDriver
    /\ deferredRemove \in BOOLEAN
    /\ boot = "up"
    /\ thr = [t \in Threads |-> Idle]
    /\ faulty = MaxFaults
    /\ last = NoCall
    /\ hist = [NoHist EXCEPT !.calls = MaxCalls]

NextShutdown ==
    \E t \in Threads :
        \/ MountDevice(t)
        \/ UnmountDevice(t)
        \/ Shutdown(t)
        \/ Locks(t)
        \/ CancelDeferredCheck(t)
        \/ CancelDeferred(t)
        \/ ActivateIfNeeded(t)
        \/ Remove(t)
        \/ Deactivate(t)

SpecShutdown == InitShutdown /\ [][NextShutdown]_vars

\* the thread is inside Shutdown and takes a step
shutdownStep(t) == thr[t].op = "Shutdown" /\ thr'[t] # thr[t]

\* Shutdown has reached its return
shutdownDone(t) == thr[t].op = "Shutdown" /\ thr[t].pc = "ret"

\* the thread holds the pool lock or the lock of a device
holdsLock(t) == poolLock = t \/ \E o \in ObjIds : heap[o].live /\ heap[o].lock = t

\* C26: whatever unmount and deactivate calls fail, Shutdown goes on: every
\* device of the index it collected is visited, a visited device with a
\* mount count gets an unmount and then a deactivation, the base device
\* gets a deactivation, the pool is deactivated exactly when no thin-pool
\* device was configured, the pool metadata is saved once, and Shutdown
\* returns success holding no device lock and no pool lock.
C26_ShutdownBestEffort ==
    /\ [](\A t \in Threads :
            /\ thr[t].op = "Shutdown" => thr[t].err = ""
            /\ shutdownDone(t) =>
                 /\ thr[t].todo = {}
                 /\ thr[t].stage = 2
                 /\ thr[t].ndeact = thr[t].numount
                                      + (IF Devices[""] # 0 THEN 1 ELSE 0)
                 /\ thr[t].npool = (IF backing.external THEN 0 ELSE 1)
                 /\ thr[t].nsave = 1
                 /\ ~holdsLock(t))
    /\ [][\A t \in Threads :
            shutdownStep(t) =>
              /\ thr[t].pc = "sd_pick" /\ thr[t].todo # {} =>
                   /\ thr'[t].pc = "sd_lockdev"
                   /\ thr'[t].info \in thr[t].todo
                   /\ thr'[t].todo = thr[t].todo \ {thr'[t].info}
              /\ thr[t].pc = "sd_lockdev" /\ thr[t].stage = 0
                   /\ heap[thr[t].info].mountCount > 0 =>
                   thr'[t].pc = "sd_unmount"
              /\ thr[t].pc = "sd_unmount" =>
                   /\ thr'[t].numount = thr[t].numount + 1
                   /\ thr'[t].pc = "lockpool"
              /\ thr[t].pc = "lockpool" /\ thr[t].stage < 2 =>
                   thr'[t].pc = "de_info"
              /\ thr[t].pc = "de_info" =>
                   thr'[t].ndeact = thr[t].ndeact + 1
              /\ thr[t].pc = "sd_pool" =>
                   /\ thr'[t].pc = "ret"
                   /\ thr'[t].nsave = thr[t].nsave + 1]_vars

\* Shutdown returns after the unmount of a mounted layer failed: the layer
\* is still mounted, its deactivation and that of the base device were
\* attempted, and the pool of the loopback setup was deactivated
C26_Witness ==
    \E t \in Threads :
        /\ shutdownDone(t)
        /\ thr[t].numount = 1
        /\ thr[t].ndeact = 2
        /\ kmount["a"] > 0
        /\ faulty < MaxFaults
        /\ ~backing.external
        /\ thr[t].npool = 1

(***************************************************************************)
(* Starts of the daemon on any metadata directory and transaction record:  *)
(* the files of the layers "a" and "b" may be missing, valid, unparsable   *)
(* or carry a device ID above maxDeviceID; the record may be missing,      *)
(* behind the pool, level with it or ahead of it.                          *)
(***************************************************************************)
deviceFile(id, valid) ==
    [exists |-> TRUE, DeviceID |-> id, Size |-> BaseSize, TransactionID |-> 2,
     Initialized |-> FALSE, valid |-> valid]

BootFiles(h) ==
    {NoFile, deviceFile(0, FALSE), deviceFile(maxDeviceID + 1, TRUE)}
        \cup {deviceFile(d, TRUE) : d \in IF h = "a" THEN {2, 3} ELSE {3}}

BootRecords ==
    {NoTrans} \cup
    {[exists |-> TRUE, OpenTransactionID |-> o, DeviceIDHash |-> h, DeviceID |-> d] :
        o \in 1..3, h \in OpHashes, d \in {2, 3}}

InitBoot ==
    /\ deviceIDMap = mapOf({})
    /\ NextDeviceID = 0
    /\ TransactionID = 0
    /\ transaction = ZeroTransaction
    /\ Devices = [h \in Hashes |-> 0]
    /\ heap = [o \in ObjIds |-> NoObj]
    /\ poolLock = 0
    /\ \E fa \in BootFiles("a"), fb \in BootFiles("b") :
         metaFiles = [InitFiles EXCEPT !["a"] = fa, !["b"] = fb]
    /\ transFile \in BootRecords
    /\ savedNextDeviceID = 1
    /\ backing = InitBacking(FALSE)
    /\ \E S \in SUBSET {2, 3} : poolDevs = {1} \cup OtherDeviceIDs \cup S
    /\ poolTxn = 2
    /\ active = {}
    /\ deferred = {}
    /\ kmount = [h \in Hashes |-> 0]
    /\ deferredRemove = FALSE
    /\ boot = "start"
    /\ thr = [t \in Threads |-> Idle]
    /\ faulty = MaxFaults
    /\ last = NoCall
    /\ hist = NoHist

NextBoot == Startup \/ Kill

SpecBoot == InitBoot /\ [][NextBoot]_vars

\* what the claims on startup call the durable state
durable == <<poolDevs, poolTxn, metaFiles, transFile, deviceIDMap>>

\* the step of processPendingTransaction that loads the record and decides
pendingStep == boot = "pending" /\ boot' \notin {boot, "start"}

\* C27: processPendingTransaction rolls back exactly when the record it
\* loaded has an OpenTransactionID above the pool's TransactionID; with no
\* record OpenTransactionID becomes TransactionID; with a record level with
\* or behind the pool no driver device, metadata file, bitmap bit or record
\* changes from there to the end of the start, and the start does not fail.
C27_RollbackDecision ==
    [][/\ pendingStep =>
            /\ boot' \in {"rb_delete", "loadset"}
            /\ boot' = "rb_delete" <=>
                 (transFile.exists /\ transFile.OpenTransactionID > TransactionID)
            /\ ~transFile.exists =>
                 transaction'.OpenTransactionID = TransactionID
            /\ transFile.exists =>
                 transaction'.OpenTransactionID = transFile.OpenTransactionID
            /\ durable' = durable
       /\ boot = "loadset" /\ boot' \notin {boot, "start"} =>
            /\ durable' = durable
            /\ boot' = "up"]_vars

\* a start met a record behind the pool and went on without a rollback
C27_Witness ==
    /\ boot = "loadset"
    /\ ~hist.rolled
    /\ transFile.exists
    /\ transaction.OpenTransactionID < TransactionID
    /\ metaFiles[transFile.DeviceIDHash].exists

\* a step of the start, not a kill of it
startStep(b) == boot = b /\ boot' \notin {b, "start"}

perDeviceIDs(files) ==
    {d \in {files[h].DeviceID : h \in {x \in Hashes : files[x].exists /\ files[x].valid}}
              \cup OtherDeviceIDs : d <= maxDeviceID}

\* the first start after a kill that met no call in progress, on a
\* directory written by calls none of which met a failure, is through
\* constructDeviceIDMap and processPendingTransaction
startedOnCompleted ==
    /\ boot = "loadset"
    /\ hist.snap = <<>>
    /\ hist.kill = [t \in Threads |-> Idle]
    /\ faulty = MaxFaults

\* C29: after constructDeviceIDMap and processPendingTransaction on a
\* directory left by completed AddDevice and DeleteDevice calls, a device ID
\* is marked used if and only if a per-device metadata file records it; the
\* transaction record contributes no bit.
C29_BitmapExact ==
    startedOnCompleted => usedIDs(deviceIDMap) = perDeviceIDs(metaFiles)

\* the start after a completed AddDevice of "b": the bitmap is that of the
\* per-device files
C29_Witness ==
    /\ startedOnCompleted
    /\ metaFiles["b"].exists
    /\ usedIDs(deviceIDMap) = perDeviceIDs(metaFiles)

\* a per-device metadata file that does not parse or records a device ID
\* above maxDeviceID
badFile(f) == f.exists /\ (~f.valid \/ f.DeviceID > maxDeviceID)

\* C30: a per-device metadata file that fails to parse or whose device ID
\* is above maxDeviceID is skipped by the walk of the start: the start does
\* not fail, and after the walk the IDs of the remaining files are marked
\* used and no bit stands for a bad file.
C30_BadFilesIgnored ==
    /\ boot # "failed"
    /\ boot = "pending" =>
         /\ perDeviceIDs(metaFiles) \subseteq usedIDs(deviceIDMap)
         /\ usedIDs(deviceIDMap) \subseteq
              perDeviceIDs(metaFiles) \cup (IF transFile.exists THEN {transFile.DeviceID} ELSE {})

\* the walk went past a file with a device ID above maxDeviceID and marked
\* the ID of the valid file of "b"
C30_Witness ==
    /\ boot = "pending"
    /\ metaFiles["a"].valid /\ badFile(metaFiles["a"])
    /\ metaFiles["b"].valid /\ ~badFile(metaFiles["b"])
    /\ ~isDeviceIDFree(deviceIDMap, metaFiles["b"].DeviceID)
    /\ ~transFile.exists

(***************************************************************************)
(* saveMetadata, writeMetaFile and loadMetadata on their own: a caller     *)
(* saves a devInfo with any field values, step by step through the         *)
(* temporary file, and loads it back; the process may be killed at any     *)
(* step.  The devInfo is heap[1], the loaded one heap[2]; the temporary    *)
(* file is the stage of the caller: 0 none, 1 created and empty, 2 holding *)
(* a part of the data, 3 holding all of it.                                *)
(***************************************************************************)
\* how many devInfos a caller saves
MaxSaves == 2

\* the file name of a hash, and the hash the walk gives a file name
metadataFile(hash) == IF hash = "" THEN "base" ELSE hash
hashOfFile(name)   == IF name = "base" THEN "" ELSE name

\* the devInfos a caller may hold
DevInfos ==
    {[live |-> TRUE, Hash |-> h, DeviceID |-> d, Size |-> s, TransactionID |-> x,
      Initialized |-> i, mountCount |-> m, mountPath |-> IF m = 0 THEN "" ELSE "p",
      lock |-> 0] :
        h \in Hashes \cup {"base"}, d \in {1, maxDeviceID}, s \in {0, BaseSize},
        x \in {0, 2}, i \in BOOLEAN, m \in {0, 1}}

\* the content of the temporary file
tmpContent(info, stage) ==
    IF stage = 3 THEN fileOf(info) ELSE [fileOf(info) EXCEPT !.valid = FALSE]

\* loadMetadata(hash) on the file metadataFile names
loadMetadataFile(files, hash) ==
    LET f == hashOfFile(metadataFile(hash))
    IN  IF files[f].exists /\ files[f].valid
        THEN [loadMetadata(files, f) EXCEPT !.Hash = hash]
        ELSE NoObj

InitMeta ==
    /\ deviceIDMap = mapOf({1, 2} \cup OtherDeviceIDs)
    /\ NextDeviceID = 1
    /\ TransactionID = 2
    /\ transaction = [OpenTransactionID |-> 2, DeviceIDHash |-> "a", DeviceID |-> 2]
    /\ Devices = [h \in Hashes |-> 0]
    /\ \E info \in DevInfos : heap = [o \in ObjIds |-> IF o = 1 THEN info ELSE NoObj]
    /\ poolLock = 0
    /\ InitDisk
    /\ InitDriver
    /\ deferredRemove = FALSE
    /\ boot = "up"
    /\ thr = [t \in Threads |-> Idle]
    /\ faulty = MaxFaults
    /\ last = NoCall
    /\ hist = [NoHist EXCEPT !.calls = MaxSaves]

metaKeep == <<deviceIDMap, NextDeviceID, TransactionID, transaction, Devices,
              poolLock, deferredRemove, transFile, savedNextDeviceID, backing,
              drvVars, boot, last>>

\* saveMetadata(info): json.Marshal, then writeMetaFile
SaveMetadataCall ==
    /\ at(1, "idle")
    /\ hist.calls > 0
    /\ hist' = [hist EXCEPT !.calls = @ - 1]
    /\ \E info \in DevInfos :
         /\ info.Hash = heap[1].Hash \/ hist.calls = MaxSaves
         /\ heap' = [heap EXCEPT ![1] = info, ![2] = NoObj]
    /\ setThr(1, [Idle EXCEPT !.op = "saveMetadata", !.pc = "w_create"])
    /\ UNCHANGED <<metaKeep, metaFiles, faulty>>

\* ioutil.TempFile
WriteCreate ==
    /\ at(1, "w_create")
    /\ \E res \in Results :
         /\ spend(res)
         /\ setThr(1, IF res = "ok" THEN [me(1) EXCEPT !.pc = "w_write", !.stage = 1]
                      ELSE [me(1) EXCEPT !.pc = "w_failed", !.err = "create"])
    /\ UNCHANGED <<metaKeep, metaFiles, heap, hist>>

\* a write that does not compare the count written with the length
WriteDataUnchecked ==
    /\ at(1, "w_write")
    /\ \E res \in Results \cup (IF faulty > 0 THEN {"probe"} ELSE {}) :
         /\ spend(res)
         /\ setThr(1, CASE res = "ok"    -> [me(1) EXCEPT !.pc = "w_sync", !.stage = 3]
                        [] res = "fault" -> [me(1) EXCEPT !.pc = "w_failed", !.err = "write"]
                        [] OTHER         -> [me(1) EXCEPT !.pc = "w_sync", !.stage = 2])
    /\ UNCHANGED <<metaKeep, metaFiles, heap, hist>>

\* tmpFile.Write: all the data, an error, or a short write
WriteData ==
    /\ at(1, "w_write")
    /\ \E res \in Results \cup (IF faulty > 0 THEN {"probe"} ELSE {}) :
         /\ spend(res)
         /\ setThr(1, CASE res = "ok"    -> [me(1) EXCEPT !.pc = "w_sync", !.stage = 3]
                        [] res = "fault" -> [me(1) EXCEPT !.pc = "w_failed", !.err = "write"]
                        [] OTHER         -> [me(1) EXCEPT !.pc = "w_failed", !.stage = 2,
                                                          !.err = "short write"])
    /\ UNCHANGED <<metaKeep, metaFiles, heap, hist>>

\* tmpFile.Sync, then tmpFile.Close
WriteSyncClose ==
    /\ at(1, "w_sync") \/ at(1, "w_close")
    /\ \E res \in Results :
         /\ spend(res)
         /\ setThr(1, IF res = "ok"
                      THEN [me(1) EXCEPT !.pc = IF @ = "w_sync" THEN "w_close"
                                                ELSE "w_rename"]
                      ELSE [me(1) EXCEPT !.pc = "w_failed", !.err = me(1).pc])
    /\ UNCHANGED <<metaKeep, metaFiles, heap, hist>>

\* the file the rename puts at the path of the hash
renamed(files, info, stage) ==
    [files EXCEPT ![hashOfFile(metadataFile(info.Hash))] = tmpContent(info, stage)]

\* os.Rename(tmpFile.Name(), filePath)
WriteRename ==
    /\ at(1, "w_rename")
    /\ \E res \in Results :
         /\ spend(res)
         /\ IF res = "ok"
            THEN /\ metaFiles' = renamed(metaFiles, heap[1], me(1).stage)
                 /\ setThr(1, [me(1) EXCEPT !.pc = "saved"])
            ELSE /\ metaFiles' = metaFiles
                 /\ setThr(1, [me(1) EXCEPT !.pc = "w_failed", !.err = "rename"])
    /\ UNCHANGED <<metaKeep, heap, hist>>

\* loadMetadata(info.Hash) after the save
LoadMetadataCall ==
    /\ at(1, "saved")
    /\ heap' = [heap EXCEPT ![2] = loadMetadataFile(metaFiles, heap[1].Hash)]
    /\ setThr(1, [me(1) EXCEPT !.pc = "loaded"])
    /\ UNCHANGED <<metaKeep, metaFiles, faulty, hist>>

\* the caller is done with the result, or with the error
MetaReturn ==
    /\ at(1, "loaded") \/ at(1, "w_failed")
    /\ setThr(1, Idle)
    /\ UNCHANGED <<metaKeep, metaFiles, heap, faulty, hist>>

NextMeta ==
    \/ SaveMetadataCall
    \/ WriteCreate
    \/ WriteData
    \/ WriteSyncClose
    \/ WriteRename
    \/ LoadMetadataCall
    \/ MetaReturn
    \/ Kill

SpecMeta == InitMeta /\ [][NextMeta]_vars

targetFile == hashOfFile(metadataFile(heap[1].Hash))

\* C32: no metadata file ever holds a part of a content, and at every step
\* of writeMetaFile, at every failure and at a kill the file at the target
\* path stays what it was, except at the rename that succeeds, which puts
\* the complete new content there; a call that returns an error has
\* therefore left the target unchanged.
C32_AtomicWrite ==
    /\ [](\A h \in Hashes : metaFiles[h].exists => metaFiles[h].valid)
    /\ [][\/ metaFiles' = metaFiles
          \/ /\ thr[1].pc = "w_rename"
             /\ thr'[1].pc = "saved"
             /\ metaFiles' = [metaFiles EXCEPT ![targetFile] = fileOf(heap[1])]]_vars

\* a save over the existing file of "a" ended with a short write: the
\* temporary file holds a part of the data, the file of "a" its old content
C32_Witness ==
    /\ thr[1].pc = "w_failed"
    /\ thr[1].stage = 2
    /\ heap[1].Hash = "a"
    /\ metaFiles["a"] = InitFiles["a"]
    /\ fileOf(heap[1]) # InitFiles["a"]

\* the thread is in HasDevice and looks the hash up in this step
hasDeviceStep(t) ==
    thr[t].op = "HasDevice" /\ thr[t].pc = "p_indevices" /\ thr'[t] # thr[t]

\* the device of the hash is in the index with a mount count
mounted(h) == Devices[h] # 0 /\ heap[Devices[h]].mountCount > 0

\* C33: HasDevice(hash) answers true exactly when the device is registered
\* (in the index or loadable from its metadata file) and mounted.
C33_HasDeviceMounted ==
    [][\A t \in Threads :
         hasDeviceStep(t) =>
           (thr'[t].err = "" <=>
              /\ Devices[thr[t].hash] # 0 \/ metaFiles[thr[t].hash].exists
              /\ mounted(thr[t].hash))]_vars

\* HasDevice has answered true for a mounted device
C33_Witness ==
    \E t \in Threads :
        /\ thr[t].op = "HasDevice"
        /\ thr[t].pc = "p_unlockpool"
        /\ thr[t].err = ""
        /\ mounted(thr[t].hash)

\* the cyclic order c+1, c+2, ..., maxDeviceID, 0, ..., c as a sequence
scanOrder(c) == [k \in 1..(maxDeviceID + 1) |-> (c + k) % (maxDeviceID + 1)]

\* the first ID of the order that is in the set F (F not empty)
firstOf(c, F) ==
    LET k == CHOOSE i \in 1..(maxDeviceID + 1) :
                 /\ scanOrder(c)[i] \in F
                 /\ \A j \in 1..(i - 1) : scanOrder(c)[j] \notin F
    IN  scanOrder(c)[k]

\* C34: getNextFreeDeviceID called with the cursor c returns the first free
\* ID of the order c+1, ..., maxDeviceID, 0, ..., c, with c itself last,
\* and leaves the cursor on the ID it returns; it fails only when no ID is
\* free, after one pass over the space that leaves the cursor at c+1.
C34_ScanOrder ==
    last.call = "alloc" =>
        IF last.freeBefore = {}
        THEN /\ ~last.ok
             /\ NextDeviceID = scanOrder(last.from)[1]
        ELSE /\ last.ok
             /\ last.id = firstOf(last.from, last.freeBefore)
             /\ NextDeviceID = last.id
             /\ last.from \in last.freeBefore /\ last.freeBefore # {last.from}
                  => last.id # last.from

\* the scan wrapped around and passed used IDs; the cursor itself was free
\* and was not taken, being the last of the order
C34_Witness ==
    /\ last.call = "alloc"
    /\ last.ok
    /\ last.id < last.from
    /\ last.from \in last.freeBefore
    /\ scanDistance(last.from, last.id) >= 2

\* the positions inside removeDevice: an attempt, and the sleep after a
\* busy response
inRemove(t) == thr[t].pc \in {"rm_try", "rm_relock"}

\* C35: removeDevice makes at most RemoveAttempts driver remove attempts
\* (200 in the source).  An attempt is made with the pool lock held; after
\* a busy response the lock is released for the sleep and taken again, and
\* the next attempt follows unless it was the last one, which returns the
\* busy error; a success or another error returns at once; whenever
\* removeDevice returns its caller holds the pool lock.
C35_BoundedBusyRetry ==
    /\ [](\A t \in Threads :
            /\ thr[t].pc = "rm_try" => poolLock = t /\ thr[t].i < RemoveAttempts
            /\ thr[t].pc = "rm_relock" => poolLock # t /\ thr[t].i < RemoveAttempts)
    /\ [][\A t \in Threads :
            /\ thr[t].pc = "rm_try" /\ thr'[t] # thr[t] =>
                 \/ /\ thr'[t].pc = "rm_relock"
                    /\ thr'[t].i = thr[t].i
                    /\ poolLock' = 0
                    /\ active' = active
                 \/ /\ ~inRemove(t)'
                    /\ poolLock' = t
                    /\ thr'[t].err \in {"", "remove"}
                    /\ thr'[t].err = "" /\ thr[t].op # "Shutdown" =>
                         thr[t].hash \notin active'
            /\ thr[t].pc = "rm_relock" /\ thr'[t] # thr[t] =>
                 /\ poolLock' = t
                 /\ IF thr[t].i + 1 < RemoveAttempts
                    THEN thr'[t].pc = "rm_try" /\ thr'[t].i = thr[t].i + 1
                    ELSE /\ ~inRemove(t)'
                         /\ thr[t].op # "Shutdown" => thr'[t].err = "busy"]_vars

\* the last attempt met a busy device; the caller sleeps without the pool
\* lock, which the other caller holds
C35_Witness ==
    \E t \in Threads :
        /\ thr[t].pc = "rm_relock"
        /\ thr[t].i = RemoveAttempts - 1
        /\ poolLock \in Threads \ {t}

\* the thread is in the create loop of createRegisterSnapDevice
inCreateLoop(t) == thr[t].op = "AddDevice" /\ thr[t].pc \in {"a_create", "a_realloc"}

PreOpenPcs == {"act_cancel", "cd_try", "cd_relock", "act_info", "d_getinfo",
               "rm_try", "rm_relock"}

\* DeleteDevice takes a step of deleteDevice before openTransaction
preOpenStep(t) ==
    /\ thr[t].op = "DeleteDevice"
    /\ thr[t].pc \in PreOpenPcs
    /\ thr'[t] # thr[t]
    /\ boot' = "up"

\* deleteDevice has returned the error of removeDevice
removeFailed(t) ==
    /\ thr[t].op = "DeleteDevice"
    /\ thr[t].pc = "unlockpool"
    /\ thr[t].err \in {"remove", "busy"}

\* C37: deleteDevice removes an activated device before it opens its
\* transaction: openTransaction is reached only with the device not
\* activated, and a removal that fails ends the call with its error.  No
\* step before openTransaction touches the transaction, its record, the
\* index, a metadata file, the bitmap, the pool's devices or a transaction
\* ID, so the failed call leaves the device it found in the index with its
\* file and its bit, and the pool's transaction ID as it was.
C37_RemoveBeforeDelete ==
    /\ [](\A t \in Threads :
            removeFailed(t) /\ Devices[thr[t].hash] = thr[t].info =>
              /\ metaFiles[thr[t].hash].exists
              /\ ~isDeviceIDFree(deviceIDMap, deletedID(t))
              /\ TransactionID = poolTxn)
    /\ [][\A t \in Threads :
            preOpenStep(t) =>
              /\ UNCHANGED <<transaction, transFile, Devices, metaFiles, deviceIDMap,
                             poolDevs, TransactionID, poolTxn>>
              /\ thr[t].pc = "d_getinfo" /\ nameOf(t) \in active =>
                   thr'[t].pc = "rm_try"
              /\ thr'[t].pc = "d_open" => nameOf(t) \notin active'
              /\ thr[t].pc \in {"rm_try", "rm_relock"} =>
                   \/ thr'[t].pc \in {"rm_try", "rm_relock", "d_open"}
                   \/ removeFailed(t)']_vars

\* the removal of the activated layer failed: the layer is in the index
\* with its file, its bit and its thin device, and the record on disk is
\* that of the last closed transaction
C37_Witness ==
    \E t \in Threads :
        /\ removeFailed(t)
        /\ Devices[thr[t].hash] = thr[t].info
        /\ thr[t].hash \in active
        /\ metaFiles[thr[t].hash].exists
        /\ deletedID(t) \in poolDevs
        /\ transFile.OpenTransactionID = poolTxn
        /\ transaction.OpenTransactionID = TransactionID

(***************************************************************************)
(* Operations that hold a devInfo whose device has been deleted.           *)
(* lookupDevice returns the pointer kept in the index; DeleteDevice takes  *)
(* info.lock only afterwards and does not look the hash up again.          *)
(***************************************************************************)
\* the positions of DeleteDevice before its own unregisterDevice
BeforeUnregisterPcs == {"act_cancel", "cd_try", "cd_relock", "act_info", "d_getinfo",
                        "rm_try", "rm_relock", "d_open", "d_delete", "d_unreg"}

\* the device ID of the object o belongs to a device registered since
reallocated(o) ==
    \E h \in Hashes : /\ Devices[h] \notin {0, o}
                      /\ heap[Devices[h]].DeviceID = heap[o].DeviceID

\* DeleteDevice(h) of thread t holds the lock of a devInfo that it looked up
\* before another DeleteDevice(h) deleted the device: the object is out of
\* the index, the metadata file is gone, and the device ID is free again or
\* given to another device
staleHandle(t) ==
    /\ thr[t].op = "DeleteDevice"
    /\ thr[t].info # 0
    /\ heap[thr[t].info].lock = t
    /\ thr[t].pc \in BeforeUnregisterPcs
    /\ Devices[thr[t].hash] # thr[t].info
    /\ ~metaFiles[thr[t].hash].exists
    /\ (isDeviceIDFree(deviceIDMap, deletedID(t)) \/ reallocated(thr[t].info))

\* the operation that holds the stale devInfo takes a step
staleStep(t) == staleHandle(t) /\ thr'[t] # thr[t]

\* C38: an operation that looked up h before a concurrent DeleteDevice(h)
\* completed and takes the device lock after it activates no device,
\* deletes no thin device, opens no transaction, frees no bit of the bitmap
\* and changes neither the index nor a metadata file, also when the old
\* device ID has been given to another hash; it ends with an error.
C38_NoStaleHandle ==
    [][\A t \in Threads : staleStep(t) =>
          /\ UNCHANGED <<active, poolDevs, transaction, transFile, deviceIDMap,
                         Devices, metaFiles>>
          /\ thr'[t].pc = "unlockpool" => thr'[t].err # ""]_vars

\* the second DeleteDevice holds the lock of the deleted devInfo while the
\* device ID belongs to a device of another hash
C38_Witness ==
    \E t \in Threads : staleHandle(t) /\ reallocated(thr[t].info)
                       /\ deletedID(t) \in poolDevs

(***************************************************************************)
(* DeleteDevice that fails in the driver's delete call, and the start      *)
(* after it.                                                               *)
(***************************************************************************)
\* the call r is a DeleteDevice that has returned the error of
\* devicemapper.DeleteDevice to its caller
deleteReturnedError(r) ==
    /\ r.op = "DeleteDevice"
    /\ r.err = "delete"
    /\ r.pc = "ret"

\* the step of thread t in which devicemapper.DeleteDevice fails
deleteFails(t) ==
    /\ thr[t].op = "DeleteDevice"
    /\ thr[t].pc = "d_delete"
    /\ thr'[t].err = "delete"

\* a start of the daemon is under way or through, and the last thing the
\* daemon did before it was the DeleteDevice that returned the error
startAfterFailedDelete == boot # "up" \/ restarted

\* C39: a DeleteDevice(h) that fails in the driver's delete call leaves the
\* index entry, the metadata file, the ID bit and the thin device of h as
\* they were, and the start that follows it with no operation in between
\* deletes neither the thin device nor the metadata file of h and keeps its
\* ID bit set.
C39_FailedDeleteStays ==
    /\ [][\A t \in Threads : deleteFails(t) =>
            /\ UNCHANGED <<Devices, metaFiles, deviceIDMap, poolDevs>>
            /\ Devices[thr[t].hash] = thr[t].info]_vars
    /\ [][(deleteReturnedError(killed) /\ startAfterFailedDelete) =>
            UNCHANGED <<poolDevs, metaFiles>>]_vars
    /\ []((deleteReturnedError(killed) /\ restarted) =>
            /\ metaFiles[killed.hash].exists
            /\ ~isDeviceIDFree(deviceIDMap, metaFiles[killed.hash].DeviceID))

\* the daemon is up again after the DeleteDevice that returned the error of
\* the driver's delete call, and the record of that call was found pending
C39_Witness ==
    /\ deleteReturnedError(killed)
    /\ restarted
    /\ hist.pend.exists
    /\ hist.pend.DeviceIDHash = killed.hash
    /\ hist.rolled

(***************************************************************************)
(* mountCount, mountPath and the mount in the kernel.                      *)
(***************************************************************************)
\* the devices of the index whose lock no operation holds
unlockedDevices == {h \in Hashes : inIndex(h) /\ heap[Devices[h]].lock = 0}

\* UnmountDevice of thread t ends with an error in this step
unmountReturnsError(t) ==
    /\ thr[t].op = "UnmountDevice"
    /\ thr[t].pc \notin {"idle", "lockdev", "lockpool", "unlockpool", "unlockdev", "ret"}
    /\ thr'[t].pc = "unlockpool"
    /\ thr'[t].err # ""

\* mountCount of the device of thread t when its UnmountDevice was called:
\* past the check the call has decremented it
countAtCall(t) ==
    IF thr[t].pc = "u_check"
    THEN heap[thr[t].info].mountCount
    ELSE heap[thr[t].info].mountCount + 1

\* C40: whenever no operation holds the lock of a device, its mountPath is
\* non-empty exactly when its mountCount is above 0, and its mountCount is
\* above 0 exactly when the device is mounted in the kernel; an
\* UnmountDevice that returns an error leaves mountCount and mountPath as
\* they were when it was called.
C40_MountStateConsistent ==
    /\ [](boot = "up" => \A h \in unlockedDevices :
            /\ (heap[Devices[h]].mountPath # "") <=> (heap[Devices[h]].mountCount > 0)
            /\ (heap[Devices[h]].mountCount > 0) <=> (kmount[h] > 0))
    /\ [][\A t \in Threads : unmountReturnsError(t) =>
            /\ heap'[thr[t].info].mountCount = countAtCall(t)
            /\ heap'[thr[t].info].mountPath = heap[thr[t].info].mountPath]_vars

\* UnmountDevice has returned the error of the unmount syscall and released
\* the lock of the device, which is still mounted in the kernel
C40_Witness ==
    \E t \in Threads :
        /\ thr[t].op = "UnmountDevice"
        /\ thr[t].pc = "ret"
        /\ thr[t].err = "unmount"
        /\ thr[t].hash \in unlockedDevices
        /\ kmount[thr[t].hash] > 0

=============================================================================
